---- MODULE Spec2Model ----
(***************************************************************************)
(* Model of the summarizer core of ai-commit-summarizer (asum):            *)
(*   src/src/summarizer/gemini.rs   GeminiProvider::summarize              *)
(*   src/src/summarizer/ollama.rs   OllamaProvider::summarize              *)
(* Text is a sequence of one-character strings, so that trimming, line     *)
(* splitting, lowercasing and substring search are computed, not assumed.  *)
(***************************************************************************)
EXTENDS Integers, Sequences, FiniteSets, TLC

VARIABLES
    provider,     \* which Summarizer implementation the call runs on: "gemini" | "ollama"
    config,       \* the provider's AIConfig
    pc,           \* position of the summarize future: "start", its await points, "done"
    url,          \* summarize: let url
    retries,      \* gemini.rs: let mut retries
    backoff,      \* gemini.rs: let mut backoff
    trace,        \* what the call did to the outside world: requests sent, sleeps started
    responses,    \* how each request sent so far ended, in order
    res,          \* the response the future holds
    result,       \* None while the call runs, Some(r) once summarize has returned r
    raw,          \* response cleaning on its own: the raw model text
    out_ollama,   \* response cleaning on its own: what ollama.rs makes of raw
    out_gemini,   \* response cleaning on its own: what gemini.rs makes of raw
    passes,       \* response cleaning on its own: 1, or 2 when raw is itself a cleaned text
    template,     \* prompt rendering on its own: generate_prompt's prompt_template
    diff,         \* prompt rendering on its own: generate_prompt's diff
    prompt,       \* prompt rendering on its own: None, or Some(what generate_prompt returned)
    args,         \* run_app: the command line, program name first
    app_pc,       \* run_app: where the run is; "idle" when no run is modelled
    local_file,   \* run_app: what ./asum.toml was found to be, "unprobed" before
    global_file,  \* run_app: what ~/.asum/asum.toml was found to be, "unprobed" before
    asum_config,  \* run_app: None, or Some(the AsumConfig that was loaded)
    staged_diff,  \* run_app: None, or Some(what get_git_diff returned)
    staged_files, \* run_app: None, or Some(what get_staged_files returned)
    diff_text,    \* run_app: the local diff_text
    events,       \* run_app: the calls made so far, in order
    stdout,       \* run_app: what was printed, in order
    clipboard,    \* run_app: the state of the system clipboard and the text put on it
    app_result,   \* run_app: None, or Some(what run_app returned)
    payload,      \* summarize: None, or Some(the JSON body of the request last sent)
    local_toml,   \* run_app: None, or Some(what ./asum.toml parsed to)
    global_toml,  \* run_app: None, or Some(what ~/.asum/asum.toml parsed to)
    key_given,    \* key logging on its own: the api_key of the AIConfig
    log           \* key logging on its own: the lines get_summarizer logged

vars == <<provider, config, pc, url, retries, backoff, trace, responses, res,
          result, raw, out_ollama, out_gemini, passes, template, diff, prompt,
          args, app_pc, local_file, global_file, asum_config, staged_diff,
          staged_files, diff_text, events, stdout, clipboard, app_result,
          payload, local_toml, global_toml, key_given, log>>

callVars == <<provider, config, pc, url, retries, backoff, trace, responses,
              res, result, payload>>

cleanVars == <<raw, out_ollama, out_gemini, passes>>

promptVars == <<template, diff, prompt>>

appVars == <<args, app_pc, local_file, global_file, asum_config, staged_diff,
             staged_files, diff_text, events, stdout, clipboard, app_result,
             local_toml, global_toml>>

logVars == <<key_given, log>>

\* what a step of a summarize call leaves alone
outsideCall == <<cleanVars, promptVars, appVars, logVars>>

\* what a step of response cleaning leaves alone
outsideClean == <<callVars, promptVars, appVars, logVars>>

\* what a step of prompt rendering leaves alone
outsidePrompt == <<callVars, cleanVars, appVars, logVars>>

\* what a step of run_app outside the summarize call leaves alone
outsideApp == <<cleanVars, promptVars, logVars>>

\* no run of run_app is under way
NoApp ==
    /\ args = <<>>
    /\ app_pc = "idle"
    /\ local_file = "unprobed"
    /\ global_file = "unprobed"
    /\ asum_config = <<>>
    /\ staged_diff = <<>>
    /\ staged_files = <<>>
    /\ diff_text = <<>>
    /\ events = <<>>
    /\ stdout = <<>>
    /\ clipboard = [state |-> "untouched", text |-> <<>>]
    /\ app_result = <<>>
    /\ local_toml = <<>>
    /\ global_toml = <<>>

\* no key logging is under way
NoLog ==
    /\ key_given = <<>>
    /\ log = <<>>

----------------------------------------------------------------------------
(* Option<T> *)

None == <<>>

Some(v) == <<v>>

IsSome(o) == Len(o) = 1

Unwrap(o) == o[1]

----------------------------------------------------------------------------
(* str primitives of the Rust standard library, as the providers use them *)

\* char::is_whitespace, restricted to the characters of the model's alphabet
IsWhitespace(c) == c \in {" ", "\t", "\n", "\r"}

RECURSIVE TrimStart(_)
TrimStart(s) ==
    IF s = <<>> THEN <<>>
    ELSE IF IsWhitespace(Head(s)) THEN TrimStart(Tail(s))
    ELSE s

RECURSIVE TrimEnd(_)
TrimEnd(s) ==
    IF s = <<>> THEN <<>>
    ELSE IF IsWhitespace(s[Len(s)]) THEN TrimEnd(SubSeq(s, 1, Len(s) - 1))
    ELSE s

\* str::trim
Trim(s) == TrimEnd(TrimStart(s))

\* str::split_inclusive('\n'): pieces that keep their terminating "\n";
\* the empty string has no piece
RECURSIVE SplitInclusive(_, _)
SplitInclusive(s, cur) ==
    IF s = <<>> THEN (IF cur = <<>> THEN <<>> ELSE <<cur>>)
    ELSE IF Head(s) = "\n" THEN <<Append(cur, "\n")>> \o SplitInclusive(Tail(s), <<>>)
    ELSE SplitInclusive(Tail(s), Append(cur, Head(s)))

\* what str::lines does to one piece: strip a final "\n", and then a final "\r"
\* only if a "\n" was stripped
StripLineEnding(p) ==
    IF p # <<>> /\ p[Len(p)] = "\n"
    THEN LET q == SubSeq(p, 1, Len(p) - 1)
         IN  IF q # <<>> /\ q[Len(q)] = "\r" THEN SubSeq(q, 1, Len(q) - 1) ELSE q
    ELSE p

\* str::lines
Lines(s) ==
    LET ps == SplitInclusive(s, <<>>)
    IN  [i \in 1..Len(ps) |-> StripLineEnding(ps[i])]

Upper == <<"A", "B", "C", "D", "E", "F", "G", "H", "I", "J", "K", "L", "M",
           "N", "O", "P", "Q", "R", "S", "T", "U", "V", "W", "X", "Y", "Z">>

Lower == <<"a", "b", "c", "d", "e", "f", "g", "h", "i", "j", "k", "l", "m",
           "n", "o", "p", "q", "r", "s", "t", "u", "v", "w", "x", "y", "z">>

LowerChar(c) ==
    IF \E i \in 1..Len(Upper) : Upper[i] = c
    THEN Lower[CHOOSE i \in 1..Len(Upper) : Upper[i] = c]
    ELSE c

\* str::to_lowercase
ToLowercase(s) == [i \in 1..Len(s) |-> LowerChar(s[i])]

\* str::contains(&str)
Contains(s, pat) ==
    \E i \in 0..(Len(s) - Len(pat)) : SubSeq(s, i + 1, i + Len(pat)) = pat

\* str::ends_with(&str)
EndsWith(s, suffix) ==
    /\ Len(suffix) <= Len(s)
    /\ SubSeq(s, Len(s) - Len(suffix) + 1, Len(s)) = suffix

\* [&str]::join
RECURSIVE Join(_, _)
Join(ls, sep) ==
    IF ls = <<>> THEN <<>>
    ELSE IF Len(ls) = 1 THEN ls[1]
    ELSE ls[1] \o sep \o Join(Tail(ls), sep)

\* Iterator::map(|l| l.trim())
MapTrim(ls) == [i \in 1..Len(ls) |-> Trim(ls[i])]

----------------------------------------------------------------------------
(* serde_json::Value.  Every value is a record of the same shape, so that  *)
(* any two values can be compared: t is the JSON type, s the characters of *)
(* a string, keys/vals the members of an object, vals the items of an array*)

JNull == [t |-> "null", s |-> <<>>, keys |-> <<>>, vals |-> <<>>]

JStr(chars) == [t |-> "str", s |-> chars, keys |-> <<>>, vals |-> <<>>]

JNum == [t |-> "num", s |-> <<>>, keys |-> <<>>, vals |-> <<>>]

JObj(ks, vs) == [t |-> "obj", s |-> <<>>, keys |-> ks, vals |-> vs]

JArr(vs) == [t |-> "arr", s |-> <<>>, keys |-> <<>>, vals |-> vs]

\* a number, s its decimal literal
JNumber(literal) == [t |-> "num", s |-> literal, keys |-> <<>>, vals |-> <<>>]

JBool(b) ==
    [t |-> "bool", s |-> IF b THEN <<"t", "r", "u", "e">> ELSE <<"f", "a", "l", "s", "e">>,
     keys |-> <<>>, vals |-> <<>>]

\* Value[&str]: the member, or Null when v is not an object or has no such key
Get(v, k) ==
    IF v.t = "obj" /\ \E i \in 1..Len(v.keys) : v.keys[i] = k
    THEN v.vals[CHOOSE i \in 1..Len(v.keys) : v.keys[i] = k]
    ELSE JNull

\* Value[usize]: the item (0-based), or Null when v is not an array or is too short
At(v, n) ==
    IF v.t = "arr" /\ n + 1 <= Len(v.vals) THEN v.vals[n + 1] ELSE JNull

\* Value::as_str
AsStr(v) == IF v.t = "str" THEN Some(v.s) ELSE None

\* Option::or_else
OrElse(o, alt) == IF IsSome(o) THEN o ELSE alt

\* Option::unwrap_or
UnwrapOr(o, default) == IF IsSome(o) THEN Unwrap(o) ELSE default

----------------------------------------------------------------------------
(* Prompt rendering *)

\* "{{diff}}"
Placeholder == <<"{", "{", "d", "i", "f", "f", "}", "}">>

\* str::replace: every non-overlapping match of from, leftmost first
RECURSIVE Replace(_, _, _)
Replace(s, from, to) ==
    IF Len(s) < Len(from) THEN s
    ELSE IF SubSeq(s, 1, Len(from)) = from
    THEN to \o Replace(SubSeq(s, Len(from) + 1, Len(s)), from, to)
    ELSE <<Head(s)>> \o Replace(Tail(s), from, to)

\* str::replacen(from, to, 1)
RECURSIVE ReplaceFirst(_, _, _)
ReplaceFirst(s, from, to) ==
    IF Len(s) < Len(from) THEN s
    ELSE IF SubSeq(s, 1, Len(from)) = from
    THEN to \o SubSeq(s, Len(from) + 1, Len(s))
    ELSE <<Head(s)>> \o ReplaceFirst(Tail(s), from, to)

\* only the first placeholder filled in
generate_prompt_first(prompt_template, d) == ReplaceFirst(prompt_template, Placeholder, d)

\* the diff trimmed before it is put in
generate_prompt_trimmed(prompt_template, d) == Replace(prompt_template, Placeholder, Trim(d))

\* mod.rs: prompt_template.replace("{{diff}}", diff)
generate_prompt(prompt_template, d) == Replace(prompt_template, Placeholder, d)

----------------------------------------------------------------------------
(* Response cleaning, once per provider as in the source *)

DiffToAnalyze == <<"d", "i", "f", "f", " ", "t", "o", " ", "a", "n", "a", "l", "y", "z", "e">>

InputDiff == <<"i", "n", "p", "u", "t", " ", "d", "i", "f", "f">>

\* lines joined by a space
NewLineSpace == <<" ">>

NewLine == <<"\n">>

\* the filter closure without its "input diff" test
OllamaKeepOneMarker(l) ==
    /\ l # <<>>
    /\ ~Contains(ToLowercase(l), DiffToAnalyze)

\* ollama.rs: the filter closure
OllamaKeep(l) ==
    /\ l # <<>>
    /\ ~Contains(ToLowercase(l), DiffToAnalyze)
    /\ ~Contains(ToLowercase(l), InputDiff)

\* ollama.rs: commit_msg -> final_msg
OllamaFinalMsg(commit_msg) ==
    Join(SelectSeq(MapTrim(Lines(commit_msg)), OllamaKeep), NewLine)

\* res_json -> commit_msg reading "response" before "message.content"
OllamaCommitMsgResponseFirst(res_json) ==
    Trim(UnwrapOr(OrElse(AsStr(Get(res_json, "response")),
                         AsStr(Get(Get(res_json, "message"), "content"))),
                  <<>>))

\* ollama.rs: res_json -> commit_msg
OllamaCommitMsg(res_json) ==
    Trim(UnwrapOr(OrElse(AsStr(Get(Get(res_json, "message"), "content")),
                         AsStr(Get(res_json, "response"))),
                  <<>>))

\* the filter closure without its emptiness test
GeminiKeepBlank(l) ==
    /\ ~Contains(ToLowercase(l), DiffToAnalyze)
    /\ ~Contains(ToLowercase(l), InputDiff)

\* gemini.rs: the filter closure
GeminiKeep(l) ==
    /\ l # <<>>
    /\ ~Contains(ToLowercase(l), DiffToAnalyze)
    /\ ~Contains(ToLowercase(l), InputDiff)

\* gemini.rs: commit_msg -> final_msg
GeminiFinalMsg(commit_msg) ==
    Join(SelectSeq(MapTrim(Lines(commit_msg)), GeminiKeep), NewLine)

\* a missing text replaced by a stock message
GeminiCommitMsgDefaulted(res_json) ==
    Trim(UnwrapOr(AsStr(Get(At(Get(Get(At(Get(res_json, "candidates"), 0),
                                       "content"), "parts"), 0), "text")),
                  <<"c", "h", "o", "r", "e", ":", " ", "u", "p", "d", "a", "t", "e">>))

\* gemini.rs: res_json -> commit_msg
GeminiCommitMsg(res_json) ==
    Trim(UnwrapOr(AsStr(Get(At(Get(Get(At(Get(res_json, "candidates"), 0),
                                       "content"), "parts"), 0), "text")),
                  <<>>))

----------------------------------------------------------------------------
(* The outside world: HTTP responses *)

\* a response body: whether the bytes arrive, the text they spell, and what
\* serde_json makes of that text (None: not valid JSON)
Body(readable, text, json) == [readable |-> readable, text |-> text, json |-> json]

Response(status, body) == [status |-> status, body |-> body]

NoResponse == Response(0, Body(FALSE, "", None))

\* Response::text().await, as an Option
ReadText(r) == IF r.body.readable THEN Some(r.body.text) ELSE None

\* Response::json().await, as an Option
ReadJson(r) == IF r.body.readable THEN r.body.json ELSE None

\* StatusCode::is_success
IsSuccess(status) == status >= 200 /\ status <= 299

TOO_MANY_REQUESTS == 429

TxtFix == <<"f", "i", "x", ":", " ", "b">>

TxtFeat == <<"f", "e", "a", "t", ":", " ", "g">>

TxtEcho == <<" ", "f", "i", "x", ":", " ", "b", "\r", "\n", "\n", "I", "n", "p", "u", "t",
             " ", "D", "i", "f", "f", ":", "\n", "\t", "d", "o", "c", "s", ":", " ", "c",
             " ", "\n">>

TxtBoiler == <<"\n", " ", "D", "i", "f", "f", " ", "t", "o", " ", "a", "n", "a", "l", "y",
               "z", "e", ":", " ", "\n", "\n">>

\* {"candidates": [{"content": {"parts": [{"text": txt}]}}]}
GeminiDoc(txt) ==
    JObj(<<"candidates">>,
         <<JArr(<<JObj(<<"content">>,
                       <<JObj(<<"parts">>,
                              <<JArr(<<JObj(<<"text">>, <<txt>>)>>)>>)>>)>>)>>)

\* {"message": {"content": c}}
ChatDoc(c) == JObj(<<"message">>, <<JObj(<<"content">>, <<c>>)>>)

\* {"response": r}
GenerateDoc(r) == JObj(<<"response">>, <<r>>)

\* {"message": {"content": c}, "response": r}
BothDoc(c, r) == JObj(<<"message", "response">>, <<JObj(<<"content">>, <<c>>), r>>)

Bodies ==
    { Body(FALSE, "quota exceeded", None),
      Body(TRUE, "", None),
      Body(TRUE, "quota exceeded", None),
      Body(TRUE, "{}", Some(JObj(<<>>, <<>>))),
      Body(TRUE, "{candidates:[]}", Some(JObj(<<"candidates">>, <<JArr(<<>>)>>))),
      Body(TRUE, "{candidates:[{content:{parts:[{text:7}]}}]}", Some(GeminiDoc(JNum))),
      Body(TRUE, "{candidates:[{content:{parts:[{text:fix}]}}]}", Some(GeminiDoc(JStr(TxtFix)))),
      Body(TRUE, "{candidates:[{content:{parts:[{text:echo}]}}]}", Some(GeminiDoc(JStr(TxtEcho)))),
      Body(TRUE, "{candidates:[{content:{parts:[{text:boiler}]}}]}", Some(GeminiDoc(JStr(TxtBoiler)))),
      Body(TRUE, "{message:{content:fix}}", Some(ChatDoc(JStr(TxtFix)))),
      Body(TRUE, "{message:{content:echo}}", Some(ChatDoc(JStr(TxtEcho)))),
      Body(TRUE, "{response:feat}", Some(GenerateDoc(JStr(TxtFeat)))),
      Body(TRUE, "{response:boiler}", Some(GenerateDoc(JStr(TxtBoiler)))),
      Body(TRUE, "{message:{content:fix},response:feat}", Some(BothDoc(JStr(TxtFix), JStr(TxtFeat)))),
      Body(TRUE, "{message:{content:7},response:feat}", Some(BothDoc(JNum, JStr(TxtFeat)))),
      Body(TRUE, "{message:{content:fix},response:7}", Some(BothDoc(JStr(TxtFix), JNum))) }

Statuses == {200, 201, 404, 429, 500}

----------------------------------------------------------------------------
(* AIConfig and the values a call returns *)

AIConfig(model, temperature, top_p, num_predict, api_url, api_key, system_prompt, user_prompt) ==
    [model |-> model, temperature |-> temperature, top_p |-> top_p,
     num_predict |-> num_predict, api_url |-> api_url, api_key |-> api_key,
     system_prompt |-> system_prompt, user_prompt |-> user_prompt]

ModelName == <<"m">>

\* ai_params of the configuration, numbers as their literals
Temperature == <<"0", ".", "2">>

TopP == <<"0", ".", "9">>

NumPredict == <<"2", "5", "6">>

\* a configured system prompt
SystemPrompt == <<"b", "e", " ", "b", "r", "i", "e", "f">>

\* a configured user prompt template
UserPrompt == <<"D", ":", " ">> \o Placeholder

KeyText == <<"k", "1">>

UrlGenerate == <<"h", "t", "t", "p", ":", "/", "/", "h", "/", "a", "p", "i", "/",
                 "g", "e", "n", "e", "r", "a", "t", "e">>

UrlGenerateSlash == <<"h", "t", "t", "p", ":", "/", "/", "h", "/", "a", "p", "i", "/",
                      "g", "e", "n", "e", "r", "a", "t", "e", "/">>

UrlHost == <<"h", "t", "t", "p", ":", "/", "/", "h">>

ApiUrls == {None, Some(UrlGenerate), Some(UrlGenerateSlash), Some(UrlHost)}

ApiKeys == {None, Some(<<>>), Some(KeyText)}

Configs ==
    {AIConfig(ModelName, Temperature, TopP, NumPredict, u, k, SystemPrompt, UserPrompt) :
        u \in ApiUrls, k \in ApiKeys}

\* the AIConfig of a provider that does not exist
NoConfig == AIConfig(ModelName, Temperature, TopP, NumPredict, None, None, SystemPrompt, UserPrompt)

\* anyhow::Result<String>
Ok(msg) == [ok |-> TRUE, msg |-> msg, err |-> "", kind |-> "", status |-> 0, error_text |-> ""]

Err(err, kind, status, error_text) ==
    [ok |-> FALSE, msg |-> <<>>, err |-> err, kind |-> kind, status |-> status,
     error_text |-> error_text]

\* entries of trace
Request == [e |-> "request", d |-> 0]

Sleep(d) == [e |-> "sleep", d |-> d]

\* entries of responses
Answered(status) == [transport |-> FALSE, status |-> status]

TransportFailure == [transport |-> TRUE, status |-> 0]

----------------------------------------------------------------------------
(* GeminiProvider *)

GeminiBaseUrl == <<"h", "t", "t", "p", "s", ":", "/", "/", "g", "e", "n", "e", "r", "a",
                   "t", "i", "v", "e", "l", "a", "n", "g", "u", "a", "g", "e", ".", "g",
                   "o", "o", "g", "l", "e", "a", "p", "i", "s", ".", "c", "o", "m">>

\* format!("{}/v1beta/models/{}:generateContent?key={}", base_url, model, api_key)
GeminiUrl(base_url, model, key) ==
    base_url
    \o <<"/", "v", "1", "b", "e", "t", "a", "/", "m", "o", "d", "e", "l", "s", "/">>
    \o model
    \o <<":", "g", "e", "n", "e", "r", "a", "t", "e", "C", "o", "n", "t", "e", "n", "t",
         "?", "k", "e", "y", "=">>
    \o key

max_retries == 3

\* let mut backoff = 2
InitialBackoff == 2

\* the credential gate letting an absent key through as the empty key
GeminiCredentialDefaulted(cfg) == Some(UnwrapOr(cfg.api_key, <<>>))

\* the credential gate taking an empty key for a missing one
GeminiCredentialNonEmpty(cfg) == IF cfg.api_key = Some(<<>>) THEN None ELSE cfg.api_key

\* self.config.api_key.as_deref().context("Gemini API key is missing")
GeminiCredential(cfg) == cfg.api_key

\* the rate-limit test allowing one retry too many
GeminiShouldRetryInclusive(status, n) == status = TOO_MANY_REQUESTS /\ n <= max_retries

\* the rate-limit test retrying on every failure status
GeminiShouldRetryAnyFailure(status, n) == ~IsSuccess(status) /\ n < max_retries

\* the rate-limit test at the head of the response handling
GeminiShouldRetry(status, n) == status = TOO_MANY_REQUESTS /\ n < max_retries

\* a fixed retry interval
GeminiNextBackoffFixed(b) == b

\* the status error without the response body
GeminiStatusErrorNoBody(r) == Err("Gemini API returned error", "bail", r.status, "")

\* bail!("Gemini API returned error: {} - {}", status, error_text)
GeminiStatusError(r) ==
    Err("Gemini API returned error", "bail", r.status,
        UnwrapOr(ReadText(r), "Unknown error"))

\* backoff *= 2
GeminiNextBackoff(b) == b * 2

\* the gate and the locals, with api_url taken for the base URL when present
GeminiStartOverridable ==
    /\ provider = "gemini"
    /\ pc = "start"
    /\ IF ~IsSome(GeminiCredential(config))
       THEN /\ result' = Some(Err("Gemini API key is missing", "context", 0, ""))
            /\ pc' = "done"
            /\ UNCHANGED <<url, retries, backoff>>
       ELSE /\ url' = GeminiUrl(UnwrapOr(config.api_url, GeminiBaseUrl), config.model, Unwrap(GeminiCredential(config)))
            /\ retries' = 0
            /\ backoff' = InitialBackoff
            /\ pc' = "loop"
            /\ UNCHANGED result
    /\ UNCHANGED <<payload, provider, config, trace, responses, res>>
    /\ UNCHANGED outsideCall

\* the credential gate, then the locals of the retry loop
GeminiStart ==
    /\ provider = "gemini"
    /\ pc = "start"
    /\ IF ~IsSome(GeminiCredential(config))
       THEN /\ result' = Some(Err("Gemini API key is missing", "context", 0, ""))
            /\ pc' = "done"
            /\ UNCHANGED <<url, retries, backoff>>
       ELSE /\ url' = GeminiUrl(GeminiBaseUrl, config.model, Unwrap(GeminiCredential(config)))
            /\ retries' = 0
            /\ backoff' = InitialBackoff
            /\ pc' = "loop"
            /\ UNCHANGED result
    /\ UNCHANGED <<payload, provider, config, trace, responses, res>>
    /\ UNCHANGED outsideCall

\* the json! body of the generateContent request for diff d
GeminiPayload(cfg, d) ==
    LET prompt_text == generate_prompt(cfg.user_prompt, d)
        Parts(text) == JArr(<<JObj(<<"text">>, <<JStr(text)>>)>>)
    IN  JObj(<<"system_instruction", "contents", "generationConfig">>,
             <<JObj(<<"parts">>, <<Parts(cfg.system_prompt)>>),
               JArr(<<JObj(<<"parts">>, <<Parts(prompt_text)>>)>>),
               JObj(<<"temperature", "topP", "maxOutputTokens">>,
                    <<JNumber(cfg.temperature), JNumber(cfg.top_p),
                      JNumber(cfg.num_predict)>>)>>)

\* loop head: self.client.post(&url).json(..).send()
GeminiSend ==
    /\ provider = "gemini"
    /\ pc = "loop"
    /\ payload' = Some(GeminiPayload(config, diff_text))
    /\ trace' = Append(trace, Request)
    /\ pc' = "send"
    /\ UNCHANGED <<provider, config, url, retries, backoff, responses, res, result>>
    /\ UNCHANGED outsideCall

\* a failed send handled like a rate-limit answer
GeminiSendErrorRetried ==
    /\ provider = "gemini"
    /\ pc = "send"
    /\ responses' = Append(responses, TransportFailure)
    /\ IF retries < max_retries
       THEN /\ retries' = retries + 1
            /\ trace' = Append(trace, Sleep(backoff))
            /\ pc' = "sleep"
            /\ UNCHANGED result
       ELSE /\ result' = Some(Err("reqwest::Error", "request", 0, ""))
            /\ pc' = "done"
            /\ UNCHANGED <<retries, trace>>
    /\ UNCHANGED <<payload, provider, config, url, backoff, res>>
    /\ UNCHANGED outsideCall

\* send().await? yields Err: connection refused, DNS failure, timeout
GeminiSendError ==
    /\ provider = "gemini"
    /\ pc = "send"
    /\ responses' = Append(responses, TransportFailure)
    /\ result' = Some(Err("reqwest::Error", "request", 0, ""))
    /\ pc' = "done"
    /\ UNCHANGED <<payload, provider, config, url, retries, backoff, trace, res>>
    /\ UNCHANGED outsideCall

\* send().await? yields a response r: rate limited and retrying, failed, or success
GeminiResponse(r) ==
    /\ provider = "gemini"
    /\ pc = "send"
    /\ responses' = Append(responses, Answered(r.status))
    /\ res' = r
    /\ IF GeminiShouldRetry(r.status, retries)
       THEN /\ retries' = retries + 1
            /\ trace' = Append(trace, Sleep(backoff))
            /\ pc' = "sleep"
       ELSE /\ pc' = IF ~IsSuccess(r.status) THEN "text" ELSE "json"
            /\ UNCHANGED <<retries, trace>>
    /\ UNCHANGED <<payload, provider, config, url, backoff, result>>
    /\ UNCHANGED outsideCall

\* the sleep is begun again in place of the next request
GeminiWakeAsleep ==
    /\ provider = "gemini"
    /\ pc = "sleep"
    /\ pc' = "sleep"
    /\ UNCHANGED <<payload, provider, config, url, retries, backoff, trace, responses, res, result>>
    /\ UNCHANGED outsideCall

\* sleep(..).await returns; backoff *= 2; continue
GeminiWake ==
    /\ provider = "gemini"
    /\ pc = "sleep"
    /\ backoff' = GeminiNextBackoff(backoff)
    /\ pc' = "loop"
    /\ UNCHANGED <<payload, provider, config, url, retries, trace, responses, res, result>>
    /\ UNCHANGED outsideCall

\* res.text().await.unwrap_or_else(..); bail!
GeminiErrorText ==
    /\ provider = "gemini"
    /\ pc = "text"
    /\ result' = Some(GeminiStatusError(res))
    /\ pc' = "done"
    /\ UNCHANGED <<payload, provider, config, url, retries, backoff, trace, responses, res>>
    /\ UNCHANGED outsideCall

\* the outcome with the extracted text returned as it is, lines unfiltered
GeminiOutcomeUnfiltered(j) ==
    IF ~IsSome(j) THEN Err("reqwest::Error", "json", 0, "")
    ELSE LET commit_msg == GeminiCommitMsg(Unwrap(j))
         IN  IF commit_msg = <<>>
             THEN Err("AI generated an empty or invalid message.", "bail", 0, "")
             ELSE Ok(commit_msg)

\* the outcome with an unparseable body reported as an empty generation
GeminiOutcomeOpaque(j) ==
    LET final_msg == IF IsSome(j) THEN GeminiFinalMsg(GeminiCommitMsg(Unwrap(j))) ELSE <<>>
    IN  IF final_msg = <<>>
        THEN Err("AI generated an empty or invalid message.", "bail", 0, "")
        ELSE Ok(final_msg)

\* what summarize returns once response.json().await has yielded j
GeminiOutcome(j) ==
    IF ~IsSome(j) THEN Err("reqwest::Error", "json", 0, "")
    ELSE LET final_msg == GeminiFinalMsg(GeminiCommitMsg(Unwrap(j)))
         IN  IF final_msg = <<>>
             THEN Err("AI generated an empty or invalid message.", "bail", 0, "")
             ELSE Ok(final_msg)

\* response.json().await?, extraction, cleaning, the emptiness check
GeminiJson ==
    /\ provider = "gemini"
    /\ pc = "json"
    /\ result' = Some(GeminiOutcome(ReadJson(res)))
    /\ pc' = "done"
    /\ UNCHANGED <<payload, provider, config, url, retries, backoff, trace, responses, res>>
    /\ UNCHANGED outsideCall

----------------------------------------------------------------------------
(* OllamaProvider *)

OllamaDefaultUrl == <<"h", "t", "t", "p", ":", "/", "/", "l", "o", "c", "a", "l", "h",
                      "o", "s", "t", ":", "1", "1", "4", "3", "4", "/", "a", "p", "i",
                      "/", "c", "h", "a", "t">>

ApiGenerate == <<"/", "a", "p", "i", "/", "g", "e", "n", "e", "r", "a", "t", "e">>

\* self.config.api_url.as_deref().unwrap_or("http://localhost:11434/api/chat")
OllamaUrl(cfg) == UnwrapOr(cfg.api_url, OllamaDefaultUrl)

\* the generate shape for any URL that has "/api/generate" somewhere in it
is_generate_api_anywhere(u) == Contains(u, ApiGenerate)

\* url.ends_with("/api/generate")
is_generate_api(u) == EndsWith(u, ApiGenerate)

\* "options": temperature, num_predict, top_p
OllamaOptions(cfg) ==
    JObj(<<"temperature", "num_predict", "top_p">>,
         <<JNumber(cfg.temperature), JNumber(cfg.num_predict), JNumber(cfg.top_p)>>)

\* the payload of summarize for diff d: the generate shape, its prompt
\* format!("{}\n\n{}", system_prompt, prompt), or the chat shape
OllamaPayload(cfg, d) ==
    LET prompt_text == generate_prompt(cfg.user_prompt, d)
    IN  IF is_generate_api(OllamaUrl(cfg))
        THEN JObj(<<"model", "prompt", "stream", "options">>,
                  <<JStr(cfg.model), JStr(cfg.system_prompt \o <<"\n", "\n">> \o prompt_text),
                    JBool(FALSE), OllamaOptions(cfg)>>)
        ELSE JObj(<<"model", "messages", "stream", "options">>,
                  <<JStr(cfg.model),
                    JArr(<<JObj(<<"role", "content">>,
                                <<JStr(<<"s", "y", "s", "t", "e", "m">>), JStr(cfg.system_prompt)>>),
                           JObj(<<"role", "content">>,
                                <<JStr(<<"u", "s", "e", "r">>), JStr(prompt_text)>>)>>),
                    JBool(FALSE), OllamaOptions(cfg)>>)

\* endpoint, payload, self.client.post(url).json(&payload).send()
OllamaSend ==
    /\ provider = "ollama"
    /\ pc = "start"
    /\ url' = OllamaUrl(config)
    /\ payload' = Some(OllamaPayload(config, diff_text))
    /\ trace' = Append(trace, Request)
    /\ pc' = "send"
    /\ UNCHANGED <<provider, config, retries, backoff, responses, res, result>>
    /\ UNCHANGED outsideCall

\* send().await? yields Err: connection refused, DNS failure, timeout
OllamaSendError ==
    /\ provider = "ollama"
    /\ pc = "send"
    /\ responses' = Append(responses, TransportFailure)
    /\ result' = Some(Err("reqwest::Error", "request", 0, ""))
    /\ pc' = "done"
    /\ UNCHANGED <<payload, provider, config, url, retries, backoff, trace, res>>
    /\ UNCHANGED outsideCall

\* a response handler that sends the request again when rate limited
OllamaResponseRetrying(r) ==
    /\ provider = "ollama"
    /\ pc = "send"
    /\ responses' = Append(responses, Answered(r.status))
    /\ res' = r
    /\ IF r.status = TOO_MANY_REQUESTS /\ Len(responses) < max_retries
       THEN /\ pc' = "start"
            /\ UNCHANGED result
       ELSE IF ~IsSuccess(r.status)
       THEN /\ result' = Some(Err("Ollama API returned error", "bail", r.status, ""))
            /\ pc' = "done"
       ELSE /\ pc' = "json"
            /\ UNCHANGED result
    /\ UNCHANGED <<payload, provider, config, url, retries, backoff, trace>>
    /\ UNCHANGED outsideCall

\* send().await? yields a response r: any non-2xx status is the end
OllamaResponse(r) ==
    /\ provider = "ollama"
    /\ pc = "send"
    /\ responses' = Append(responses, Answered(r.status))
    /\ res' = r
    /\ IF ~IsSuccess(r.status)
       THEN /\ result' = Some(Err("Ollama API returned error", "bail", r.status, ""))
            /\ pc' = "done"
       ELSE /\ pc' = "json"
            /\ UNCHANGED result
    /\ UNCHANGED <<payload, provider, config, url, retries, backoff, trace>>
    /\ UNCHANGED outsideCall

\* the outcome without the emptiness check
OllamaOutcomeUnchecked(j) ==
    IF ~IsSome(j) THEN Err("reqwest::Error", "json", 0, "")
    ELSE Ok(OllamaFinalMsg(OllamaCommitMsg(Unwrap(j))))

\* what summarize returns once response.json().await has yielded j
OllamaOutcome(j) ==
    IF ~IsSome(j) THEN Err("reqwest::Error", "json", 0, "")
    ELSE LET final_msg == OllamaFinalMsg(OllamaCommitMsg(Unwrap(j)))
         IN  IF final_msg = <<>>
             THEN Err("AI generated an empty or invalid message.", "bail", 0, "")
             ELSE Ok(final_msg)

\* response.json().await?, extraction, cleaning, the emptiness check
OllamaJson ==
    /\ provider = "ollama"
    /\ pc = "json"
    /\ result' = Some(OllamaOutcome(ReadJson(res)))
    /\ pc' = "done"
    /\ UNCHANGED <<payload, provider, config, url, retries, backoff, trace, responses, res>>
    /\ UNCHANGED outsideCall

----------------------------------------------------------------------------
(* One summarize call on a freshly constructed provider *)

Init ==
    /\ provider \in {"gemini", "ollama"}
    /\ config \in Configs
    /\ pc = "start"
    /\ url = <<>>
    /\ retries = 0
    /\ backoff = 0
    /\ trace = <<>>
    /\ responses = <<>>
    /\ res = NoResponse
    /\ result = None
    /\ payload = None
    /\ NoLog
    /\ raw = <<>>
    /\ out_ollama = None
    /\ out_gemini = None
    /\ passes = 1
    /\ template = <<>>
    /\ diff = <<>>
    /\ prompt = None
    /\ NoApp

Next ==
    \/ GeminiStart
    \/ GeminiSend
    \/ GeminiSendError
    \/ \E s \in Statuses, b \in Bodies : GeminiResponse(Response(s, b))
    \/ GeminiWake
    \/ GeminiErrorText
    \/ GeminiJson
    \/ OllamaSend
    \/ OllamaSendError
    \/ \E s \in Statuses, b \in Bodies : OllamaResponse(Response(s, b))
    \/ OllamaJson

Spec == Init /\ [][Next]_vars

\* the steps of a call up to the parsed body: the credential check, sending,
\* the answer or transport error to a request, the end of a sleep, the read
\* of an error body
Awaits ==
    \/ GeminiStart
    \/ GeminiSend
    \/ GeminiSendError
    \/ \E s \in Statuses, b \in Bodies : GeminiResponse(Response(s, b))
    \/ GeminiWake
    \/ GeminiErrorText
    \/ OllamaSend
    \/ OllamaSendError
    \/ \E s \in Statuses, b \in Bodies : OllamaResponse(Response(s, b))

\* the step GeminiJson and OllamaJson take, by its effect on pc: json().await
\* yields and the rest of summarize runs to its return
Returns == pc = "json" /\ pc' = "done"

\* every await of the call completes and straight-line code runs on
SpecFair == Spec /\ WF_vars(Awaits) /\ WF_pc(Returns)

----------------------------------------------------------------------------
(* Observations on a call *)

\* number of HTTP requests sent so far
Requests == Len(SelectSeq(trace, LAMBDA ev : ev.e = "request"))

\* the delays slept so far, in order
Sleeps ==
    LET naps == SelectSeq(trace, LAMBDA ev : ev.e = "sleep")
    IN  [i \in 1..Len(naps) |-> naps[i].d]

Done == pc = "done"

RECURSIVE Pow2(_)
Pow2(n) == IF n = 0 THEN 1 ELSE 2 * Pow2(n - 1)

----------------------------------------------------------------------------
(* Response cleaning on its own: both providers' pipelines applied to one  *)
(* raw model text, delivered in the JSON field each provider reads         *)

MaxParts == 4

Fragments ==
    { <<"a", "\n">>,
      <<"b">>,
      <<" ", "I", "n", "p", "u", "t", " ", "D", "i", "f", "f", ":", "\n">>,
      <<"d", "i", "f", "f", " ", "T", "O", " ", "a", "n", "a", "l", "y", "z", "e">>,
      <<"\n">>,
      <<"\r">>,
      <<" ">>,
      <<"I", "n", "p", "u", "t">>,
      <<" ", "d", "i", "f", "f">> }

RECURSIVE Concat(_)
Concat(parts) == IF parts = <<>> THEN <<>> ELSE Head(parts) \o Concat(Tail(parts))

\* "feat: add x\n\nInput diff to analyze:\n...\nfix: cleanup"
ScenarioText ==
    <<"f", "e", "a", "t", ":", " ", "a", "d", "d", " ", "x", "\n", "\n",
      "I", "n", "p", "u", "t", " ", "d", "i", "f", "f", " ", "t", "o", " ",
      "a", "n", "a", "l", "y", "z", "e", ":", "\n", ".", ".", ".", "\n",
      "f", "i", "x", ":", " ", "c", "l", "e", "a", "n", "u", "p">>

RawTexts ==
    {Concat(parts) : parts \in UNION {[1..n -> Fragments] : n \in 0..MaxParts}}
    \cup {ScenarioText}

InitClean ==
    /\ raw \in RawTexts
    /\ out_ollama = None
    /\ out_gemini = None
    /\ passes = 1
    /\ template = <<>>
    /\ diff = <<>>
    /\ prompt = None
    /\ NoApp
    /\ provider = "none"
    /\ config = NoConfig
    /\ pc = "idle"
    /\ url = <<>>
    /\ retries = 0
    /\ backoff = 0
    /\ trace = <<>>
    /\ responses = <<>>
    /\ res = NoResponse
    /\ result = None
    /\ payload = None
    /\ NoLog

\* ollama.rs on a chat response carrying raw
CleanOllama ==
    /\ out_ollama = None
    /\ out_ollama' = Some(OllamaFinalMsg(OllamaCommitMsg(ChatDoc(JStr(raw)))))
    /\ UNCHANGED <<raw, out_gemini, passes>>
    /\ UNCHANGED outsideClean

\* gemini.rs on a generateContent response carrying raw
CleanGemini ==
    /\ out_gemini = None
    /\ out_gemini' = Some(GeminiFinalMsg(GeminiCommitMsg(GeminiDoc(JStr(raw)))))
    /\ UNCHANGED <<raw, out_ollama, passes>>
    /\ UNCHANGED outsideClean

\* the text ollama.rs returned comes back as the next raw model text
RecleanOllama ==
    /\ passes = 1
    /\ IsSome(out_ollama)
    /\ raw' = Unwrap(out_ollama)
    /\ out_ollama' = None
    /\ out_gemini' = None
    /\ passes' = 2
    /\ UNCHANGED outsideClean

\* the text gemini.rs returned comes back as the next raw model text
RecleanGemini ==
    /\ passes = 1
    /\ IsSome(out_gemini)
    /\ raw' = Unwrap(out_gemini)
    /\ out_ollama' = None
    /\ out_gemini' = None
    /\ passes' = 2
    /\ UNCHANGED outsideClean

NextClean == CleanOllama \/ CleanGemini \/ RecleanOllama \/ RecleanGemini

SpecClean == InitClean /\ [][NextClean]_vars

----------------------------------------------------------------------------
(* Prompt rendering on its own: generate_prompt on one template and diff   *)

MaxTemplateParts == 3

TemplateFragments ==
    { Placeholder,
      <<"{">>,
      <<"}">>,
      <<"{", "{">>,
      <<"d", "i", "f", "f">>,
      <<"x", " ">> }

Templates ==
    {Concat(parts) : parts \in UNION {[1..n -> TemplateFragments] : n \in 0..MaxTemplateParts}}

Diffs ==
    { <<>>,
      <<"f", "i", "x">>,
      <<" ", "+", "a", "\n">>,
      Placeholder,
      <<"}", "}", "{", "{">> }

InitPrompt ==
    /\ template \in Templates
    /\ diff \in Diffs
    /\ prompt = None
    /\ NoApp
    /\ raw = <<>>
    /\ out_ollama = None
    /\ out_gemini = None
    /\ passes = 1
    /\ provider = "none"
    /\ config = NoConfig
    /\ pc = "idle"
    /\ url = <<>>
    /\ retries = 0
    /\ backoff = 0
    /\ trace = <<>>
    /\ responses = <<>>
    /\ res = NoResponse
    /\ result = None
    /\ payload = None
    /\ NoLog

RenderPrompt ==
    /\ prompt = None
    /\ prompt' = Some(generate_prompt(template, diff))
    /\ UNCHANGED <<template, diff>>
    /\ UNCHANGED outsidePrompt

NextPrompt == RenderPrompt

SpecPrompt == InitPrompt /\ [][NextPrompt]_vars

\* where "{{diff}}" occurs in text
Occurrences(text) ==
    {i \in 1..(Len(text) - Len(Placeholder) + 1) :
        \A j \in 1..Len(Placeholder) : text[i + j - 1] = Placeholder[j]}

\* C14: for a template containing "{{diff}}" exactly once, generate_prompt
\* returns the text before the placeholder, the diff verbatim, then the
\* text after it; for a template without the placeholder it returns the
\* template, whatever the diff.
C14_PlaceholderSubstitution ==
    IsSome(prompt) =>
        /\ Cardinality(Occurrences(template)) = 1 =>
               LET i == CHOOSE k \in Occurrences(template) : TRUE
               IN  Unwrap(prompt) =
                       SubSeq(template, 1, i - 1) \o diff
                       \o SubSeq(template, i + Len(Placeholder), Len(template))
        /\ Occurrences(template) = {} => Unwrap(prompt) = template

\* a template with text on both sides of its one placeholder, rendered with a
\* diff that has whitespace at both ends
C14_Witness ==
    /\ template = <<"x", " ">> \o Placeholder \o <<"}">>
    /\ diff = <<" ", "+", "a", "\n">>
    /\ prompt = Some(<<"x", " ", " ", "+", "a", "\n", "}">>)

\* template from position from on, each placeholder in it replaced by diff
RECURSIVE Filled(_)
Filled(from) ==
    LET later == {i \in Occurrences(template) : i >= from}
    IN  IF later = {} THEN SubSeq(template, from, Len(template))
        ELSE LET i == CHOOSE k \in later : \A m \in later : k <= m
             IN  SubSeq(template, from, i - 1) \o diff \o Filled(i + Len(Placeholder))

\* C22: generate_prompt replaces every "{{diff}}" of the template, not only
\* the first, and substitutes once: the text put in is the diff as it is,
\* also when the diff has "{{diff}}" in it or completes one with the text
\* around it.
C22_EveryOccurrenceOnce ==
    IsSome(prompt) =>
        /\ Unwrap(prompt) = Filled(1)
        /\ Len(Unwrap(prompt)) = Len(template)
              + Cardinality(Occurrences(template)) * (Len(diff) - Len(Placeholder))

\* two placeholders filled with a diff that, next to the text between them,
\* spells a placeholder again, which stays in the result
C22_Witness ==
    /\ template = Placeholder \o <<"d", "i", "f", "f">> \o Placeholder
    /\ diff = <<"}", "}", "{", "{">>
    /\ prompt = Some(<<"}", "}", "{", "{", "d", "i", "f", "f", "}", "}", "{", "{">>)

----------------------------------------------------------------------------
(* run_app: one run of the program, its collaborators as inputs *)

\* anyhow::Result<()> of run_app: the context put around an error, the error
AppOk == [ok |-> TRUE, context |-> "", error |-> None]

AppErr(context, e) == [ok |-> FALSE, context |-> context, error |-> Some(e)]

\* a line on standard output
Printed(line, text) == [line |-> line, text |-> text]

\* [general] active_provider values a file may carry
Selectors == {"ollama", "gemini", "openai", "Gemini"}

\* [general] max_diff_length values a file may carry
MaxDiffLengths == {2, 3, 50}

\* the optional [gemini] table
GeminiSections == {None, Some([api_key |-> KeyText, model |-> ModelName])}

\* the optional [ollama] table
OllamaSections ==
    { None,
      Some([url |-> UrlGenerate, model |-> ModelName]),
      Some([url |-> UrlGenerateSlash, model |-> ModelName]) }

\* config.rs default_system_prompt, its first line standing for the text
default_system_prompt ==
    <<"#", " ", "S", "Y", "S", "T", "E", "M", " ", "I", "D", "E", "N", "T", "I", "T", "Y">>

\* config.rs default_user_prompt: "[INPUT DIFF]\n{{diff}}\n\n[OUTPUT]"
default_user_prompt ==
    <<"[", "I", "N", "P", "U", "T", " ", "D", "I", "F", "F", "]", "\n">>
    \o Placeholder
    \o <<"\n", "\n", "[", "O", "U", "T", "P", "U", "T", "]">>

\* TomlConfig, the fields run_app and get_summarizer go on to read; the
\* [prompts] table is optional
TomlConfigs ==
    {[general |-> [active_provider |-> p, max_diff_length |-> n],
      prompts |-> pr,
      ai_params |-> [temperature |-> Temperature, top_p |-> TopP,
                     num_predict |-> NumPredict],
      gemini |-> g, ollama |-> o] :
        p \in Selectors, n \in MaxDiffLengths,
        pr \in {None, Some([system_prompt |-> Some(SystemPrompt),
                            user_prompt |-> Some(UserPrompt)])},
        g \in GeminiSections, o \in OllamaSections}

\* the contents of ~/.asum/asum.toml tried
GlobalTomlConfigs ==
    {t \in TomlConfigs :
        /\ t.general.max_diff_length = 50
        /\ t.prompts = None
        /\ \/ t.general.active_provider = "ollama" /\ t.gemini = None /\ t.ollama = None
           \/ t.general.active_provider = "gemini" /\ t.gemini # None /\ t.ollama # None}

\* the AsumConfig built from a parsed file
load_from_toml(t) ==
    [active_provider |-> t.general.active_provider,
     max_diff_length |-> t.general.max_diff_length,
     system_prompt   |-> IF IsSome(t.prompts) /\ IsSome(Unwrap(t.prompts).system_prompt)
                         THEN Unwrap(Unwrap(t.prompts).system_prompt)
                         ELSE default_system_prompt,
     user_prompt     |-> IF IsSome(t.prompts) /\ IsSome(Unwrap(t.prompts).user_prompt)
                         THEN Unwrap(Unwrap(t.prompts).user_prompt)
                         ELSE default_user_prompt,
     ai_temperature  |-> t.ai_params.temperature,
     ai_top_p        |-> t.ai_params.top_p,
     ai_num_predict  |-> t.ai_params.num_predict,
     ollama_url      |-> IF IsSome(t.ollama) THEN Some(Unwrap(t.ollama).url) ELSE None,
     ollama_model    |-> IF IsSome(t.ollama) THEN Some(Unwrap(t.ollama).model) ELSE None,
     gemini_api_key  |-> IF IsSome(t.gemini) THEN Some(Unwrap(t.gemini).api_key) ELSE None,
     gemini_model    |-> IF IsSome(t.gemini) THEN Some(Unwrap(t.gemini).model) ELSE None]

\* what a configuration file can be found to be
FileStates == {"missing", "unreadable", "invalid", "valid"}

\* the same for ~/.asum/asum.toml, or no home directory to look in
GlobalStates == FileStates \cup {"no home"}

\* what fs::read_to_string or toml::from_str fails with on a file in state f
FileError(f) == IF f = "unreadable" THEN "io::Error" ELSE "toml::de::Error"

Loaded(c) == [ok |-> TRUE, config |-> Some(c), error |-> None]

NotLoaded(e) == [ok |-> FALSE, config |-> None, error |-> Some(e)]

\* the search with ~/.asum/asum.toml looked at before ./asum.toml
load_global_first(l, g, tl, tg) ==
    IF g \notin {"missing", "no home"}
    THEN IF g = "valid" THEN Loaded(load_from_toml(tg))
         ELSE NotLoaded(Err("Failed to load global config", "context", 0, FileError(g)))
    ELSE IF l # "missing"
    THEN IF l = "valid" THEN Loaded(load_from_toml(tl))
         ELSE NotLoaded(Err("Failed to load local config", "context", 0, FileError(l)))
    ELSE NotLoaded(Err("Configuration file 'asum.toml' not found locally or in ~/.asum/asum.toml",
                       "anyhow", 0, ""))

\* AsumConfig::load with ./asum.toml in state l and of content tl,
\* ~/.asum/asum.toml in state g and of content tg
load(l, g, tl, tg) ==
    IF l # "missing"
    THEN IF l = "valid" THEN Loaded(load_from_toml(tl))
         ELSE NotLoaded(Err("Failed to load local config", "context", 0, FileError(l)))
    ELSE IF g = "no home"
    THEN NotLoaded(Err("Could not find home directory", "anyhow", 0, ""))
    ELSE IF g # "missing"
    THEN IF g = "valid" THEN Loaded(load_from_toml(tg))
         ELSE NotLoaded(Err("Failed to load global config", "context", 0, FileError(g)))
    ELSE NotLoaded(Err("Configuration file 'asum.toml' not found locally or in ~/.asum/asum.toml",
                       "anyhow", 0, ""))

\* verify_toml on ./asum.toml in state f, as run_app reports it
verify(f) ==
    IF f = "missing" THEN AppErr("", Err("asum.toml not found", "anyhow", 0, ""))
    ELSE IF f = "valid" THEN AppOk
    ELSE AppErr("", Err("asum.toml syntax error", "anyhow", 0, FileError(f)))

\* the AIConfig get_summarizer builds
ai_config(c) ==
    LET model == IF c.active_provider = "gemini" THEN UnwrapOr(c.gemini_model, <<>>)
                 ELSE IF c.active_provider = "ollama" THEN UnwrapOr(c.ollama_model, <<>>)
                 ELSE <<>>
    IN  AIConfig(model, c.ai_temperature, c.ai_top_p, c.ai_num_predict, c.ollama_url,
                 c.gemini_api_key, c.system_prompt, c.user_prompt)

Summarizer(p, c) == [summarizer |-> Some([provider |-> p, config |-> c]), error |-> None]

NoSummarizer(e) == [summarizer |-> None, error |-> Some(e)]

\* an unknown selector served by the Ollama provider
get_summarizer_fallback(c) ==
    IF c.active_provider = "gemini" THEN Summarizer("gemini", ai_config(c))
    ELSE Summarizer("ollama", ai_config(c))

\* mod.rs get_summarizer: the provider for active_provider, or the error
get_summarizer(c) ==
    IF c.active_provider = "ollama" THEN Summarizer("ollama", ai_config(c))
    ELSE IF c.active_provider = "gemini" THEN Summarizer("gemini", ai_config(c))
    ELSE NoSummarizer(Err("Unknown provider", "anyhow", 0, c.active_provider))

\* the constructor get_summarizer calls for provider p
ProviderNew(p) == IF p = "ollama" THEN "OllamaProvider::new" ELSE "GeminiProvider::new"

\* bytes of a character in UTF-8, for the characters of the diffs below
Utf8Len(c) == IF c = "é" THEN 2 ELSE 1

\* str::len
RECURSIVE ByteLen(_)
ByteLen(text) == IF text = <<>> THEN 0 ELSE Utf8Len(Head(text)) + ByteLen(Tail(text))

\* chars().take(n).collect()
Take(text, n) == SubSeq(text, 1, IF n < Len(text) THEN n ELSE Len(text))

\* the cut leaving one character more than max_diff_length
TruncatedOneMore(text, max_diff_length) ==
    IF ByteLen(text) > max_diff_length THEN Take(text, max_diff_length + 1) ELSE text

\* main.rs: the cut of diff_text to max_diff_length
Truncated(text, max_diff_length) ==
    IF ByteLen(text) > max_diff_length THEN Take(text, max_diff_length) ELSE text

\* Result<String> of a git command
GitOutput(text) == [ok |-> TRUE, text |-> text]

GitFailed == [ok |-> FALSE, text |-> <<>>]

\* what git diff --cached on the configured extensions may give
GitDiffs ==
    { GitFailed,
      GitOutput(<<>>),
      GitOutput(<<"+", "a">>),
      GitOutput(<<"+", "é", "b">>) }

\* what git diff --cached --name-status may give
StagedLists ==
    { GitFailed,
      GitOutput(<<>>),
      GitOutput(<<"M", "\t", "f", "\n">>) }

\* Clipboard::new failed, set_text failed, or the text was copied
ClipboardOutcomes == {"unavailable", "copy failed", "copied"}

\* the command lines tried
ArgLists ==
    { <<"asum">>,
      <<"asum", "help">>,
      <<"asum", "--help">>,
      <<"asum", "-h">>,
      <<"asum", "verify">>,
      <<"asum", "status">>,
      <<"asum", "Help", "verify">> }

InitApp ==
    /\ args \in ArgLists
    /\ app_pc = "args"
    /\ local_file = "unprobed"
    /\ global_file = "unprobed"
    /\ asum_config = None
    /\ staged_diff = None
    /\ staged_files = None
    /\ diff_text = <<>>
    /\ events = <<>>
    /\ stdout = <<>>
    /\ clipboard = [state |-> "untouched", text |-> <<>>]
    /\ app_result = None
    /\ local_toml = None
    /\ global_toml = None
    /\ provider = "none"
    /\ config = NoConfig
    /\ pc = "idle"
    /\ url = <<>>
    /\ retries = 0
    /\ backoff = 0
    /\ trace = <<>>
    /\ responses = <<>>
    /\ res = NoResponse
    /\ result = None
    /\ payload = None
    /\ NoLog
    /\ raw = <<>>
    /\ out_ollama = None
    /\ out_gemini = None
    /\ passes = 1
    /\ template = <<>>
    /\ diff = <<>>
    /\ prompt = None

\* the dispatch with an unknown command ignored and the run carried on
AppCommandFallsThrough(f) ==
    /\ app_pc = "args"
    /\ IF Len(args) > 1
       THEN IF args[2] = "verify"
            THEN /\ local_file' = f
                 /\ events' = IF f = "missing" THEN events ELSE Append(events, "verify_toml")
                 /\ stdout' = IF f = "valid"
                               THEN Append(stdout, Printed("[OK] asum.toml syntax is valid.", <<>>))
                               ELSE stdout
                 /\ app_result' = Some(verify(f))
                 /\ app_pc' = "returned"
            ELSE IF args[2] \in {"help", "--help", "-h"}
            THEN /\ stdout' = stdout \o <<Printed("ASUM - AI Commit Summarizer", <<>>),
                                          Printed("Usage", <<>>)>>
                 /\ app_result' = Some(AppOk)
                 /\ app_pc' = "returned"
                 /\ UNCHANGED <<local_file, events>>
            ELSE /\ app_pc' = "load"
                 /\ UNCHANGED <<local_file, events, stdout, app_result>>
       ELSE /\ app_pc' = "load"
            /\ UNCHANGED <<local_file, events, stdout, app_result>>
    /\ UNCHANGED <<args, local_toml, global_toml, global_file, asum_config, staged_diff, staged_files,
                   diff_text, clipboard>>
    /\ UNCHANGED callVars
    /\ UNCHANGED outsideApp

\* main.rs: the subcommand dispatch, ./asum.toml found in state f by verify
AppCommand(f) ==
    /\ app_pc = "args"
    /\ IF Len(args) > 1
       THEN IF args[2] = "verify"
            THEN /\ local_file' = f
                 /\ events' = IF f = "missing" THEN events ELSE Append(events, "verify_toml")
                 /\ stdout' = IF f = "valid"
                               THEN Append(stdout, Printed("[OK] asum.toml syntax is valid.", <<>>))
                               ELSE stdout
                 /\ app_result' = Some(verify(f))
                 /\ app_pc' = "returned"
            ELSE IF args[2] \in {"help", "--help", "-h"}
            THEN /\ stdout' = stdout \o <<Printed("ASUM - AI Commit Summarizer", <<>>),
                                          Printed("Usage", <<>>)>>
                 /\ app_result' = Some(AppOk)
                 /\ app_pc' = "returned"
                 /\ UNCHANGED <<local_file, events>>
            ELSE /\ stdout' = Append(stdout, Printed("Usage", <<>>))
                 /\ app_result' = Some(AppErr("", Err("Unknown command", "anyhow", 0, "")))
                 /\ app_pc' = "returned"
                 /\ UNCHANGED <<local_file, events>>
       ELSE /\ app_pc' = "load"
            /\ UNCHANGED <<local_file, events, stdout, app_result>>
    /\ UNCHANGED <<args, local_toml, global_toml, global_file, asum_config, staged_diff, staged_files,
                   diff_text, clipboard>>
    /\ UNCHANGED callVars
    /\ UNCHANGED outsideApp

\* AsumConfig::load().context(..)? with the two files in states l and g
AppLoad(l, g, tl, tg) ==
    /\ app_pc = "load"
    /\ local_file' = l
    /\ local_toml' = IF l = "valid" THEN Some(tl) ELSE None
    /\ global_file' = IF l = "missing" THEN g ELSE "unprobed"
    /\ global_toml' = IF l = "missing" /\ g = "valid" THEN Some(tg) ELSE None
    /\ events' = Append(events, "AsumConfig::load")
    /\ IF load(l, g, tl, tg).ok
       THEN /\ asum_config' = load(l, g, tl, tg).config
            /\ app_pc' = "diff"
            /\ UNCHANGED app_result
       ELSE /\ app_result' = Some(AppErr("Failed to load configuration",
                                         Unwrap(load(l, g, tl, tg).error)))
            /\ app_pc' = "returned"
            /\ UNCHANGED asum_config
    /\ UNCHANGED <<args, staged_diff, staged_files, diff_text, stdout, clipboard>>
    /\ UNCHANGED callVars
    /\ UNCHANGED outsideApp

\* the step with the staged files listed whatever the diff holds
AppGitDiffListsFiles(out) ==
    /\ app_pc = "diff"
    /\ staged_diff' = Some(out)
    /\ events' = Append(events, "get_git_diff")
    /\ IF ~out.ok
       THEN /\ app_result' = Some(AppErr("Failed to get git diff",
                                         Err("io::Error", "spawn", 0, "")))
            /\ app_pc' = "returned"
            /\ UNCHANGED diff_text
       ELSE /\ diff_text' = out.text
            /\ app_pc' = "files"
            /\ UNCHANGED app_result
    /\ UNCHANGED <<args, local_toml, global_toml, local_file, global_file, asum_config, staged_files, stdout,
                   clipboard>>
    /\ UNCHANGED callVars
    /\ UNCHANGED outsideApp

\* get_git_diff(&config.git_extensions).context(..)? and the emptiness test
AppGitDiff(out) ==
    /\ app_pc = "diff"
    /\ staged_diff' = Some(out)
    /\ events' = Append(events, "get_git_diff")
    /\ IF ~out.ok
       THEN /\ app_result' = Some(AppErr("Failed to get git diff",
                                         Err("io::Error", "spawn", 0, "")))
            /\ app_pc' = "returned"
            /\ UNCHANGED diff_text
       ELSE /\ diff_text' = out.text
            /\ app_pc' = IF out.text = <<>> THEN "files" ELSE "summarizer"
            /\ UNCHANGED app_result
    /\ UNCHANGED <<args, local_toml, global_toml, local_file, global_file, asum_config, staged_files, stdout,
                   clipboard>>
    /\ UNCHANGED callVars
    /\ UNCHANGED outsideApp

\* the fallback with an empty file list passed on to the summarizer
AppStagedFilesAlways(out) ==
    /\ app_pc = "files"
    /\ staged_files' = Some(out)
    /\ events' = Append(events, "get_staged_files")
    /\ IF ~out.ok
       THEN /\ app_result' = Some(AppErr("Failed to get staged files",
                                         Err("io::Error", "spawn", 0, "")))
            /\ app_pc' = "returned"
            /\ UNCHANGED diff_text
       ELSE IF FALSE
       THEN /\ diff_text' = out.text
            /\ app_result' = Some(AppOk)
            /\ app_pc' = "returned"
       ELSE /\ diff_text' = out.text
            /\ app_pc' = "summarizer"
            /\ UNCHANGED app_result
    /\ UNCHANGED <<args, local_toml, global_toml, local_file, global_file, asum_config, staged_diff, stdout,
                   clipboard>>
    /\ UNCHANGED callVars
    /\ UNCHANGED outsideApp

\* get_staged_files().context(..)? and the second emptiness test
AppStagedFiles(out) ==
    /\ app_pc = "files"
    /\ staged_files' = Some(out)
    /\ events' = Append(events, "get_staged_files")
    /\ IF ~out.ok
       THEN /\ app_result' = Some(AppErr("Failed to get staged files",
                                         Err("io::Error", "spawn", 0, "")))
            /\ app_pc' = "returned"
            /\ UNCHANGED diff_text
       ELSE IF out.text = <<>>
       THEN /\ diff_text' = out.text
            /\ app_result' = Some(AppOk)
            /\ app_pc' = "returned"
       ELSE /\ diff_text' = out.text
            /\ app_pc' = "summarizer"
            /\ UNCHANGED app_result
    /\ UNCHANGED <<args, local_toml, global_toml, local_file, global_file, asum_config, staged_diff, stdout,
                   clipboard>>
    /\ UNCHANGED callVars
    /\ UNCHANGED outsideApp

\* the step with the provider constructed a second time for the call
AppSummarizerTwice ==
    /\ app_pc = "summarizer"
    /\ LET c    == Unwrap(asum_config)
           made == get_summarizer(c)
       IN  /\ diff_text' = Truncated(diff_text, c.max_diff_length)
           /\ IF IsSome(made.summarizer)
              THEN /\ provider' = Unwrap(made.summarizer).provider
                   /\ config' = Unwrap(made.summarizer).config
                   /\ pc' = "start"
                   /\ events' = events \o <<"get_summarizer",
                                             ProviderNew(Unwrap(made.summarizer).provider),
                                             ProviderNew(Unwrap(made.summarizer).provider),
                                             "summarize">>
                   /\ app_pc' = "summarize"
                   /\ UNCHANGED app_result
              ELSE /\ events' = Append(events, "get_summarizer")
                   /\ app_result' = Some(AppErr("Failed to get summarizer", Unwrap(made.error)))
                   /\ app_pc' = "returned"
                   /\ UNCHANGED <<provider, config, pc>>
    /\ UNCHANGED <<args, local_toml, global_toml, local_file, global_file, asum_config, staged_diff, staged_files,
                   stdout, clipboard>>
    /\ UNCHANGED <<url, retries, backoff, trace, responses, res, result, payload>>
    /\ UNCHANGED outsideApp

\* the cut to max_diff_length, get_summarizer(config).await.context(..)? and
\* the call of summarizer.summarize(&diff_text)
AppSummarizer ==
    /\ app_pc = "summarizer"
    /\ LET c    == Unwrap(asum_config)
           made == get_summarizer(c)
       IN  /\ diff_text' = Truncated(diff_text, c.max_diff_length)
           /\ IF IsSome(made.summarizer)
              THEN /\ provider' = Unwrap(made.summarizer).provider
                   /\ config' = Unwrap(made.summarizer).config
                   /\ pc' = "start"
                   /\ events' = events \o <<"get_summarizer",
                                             ProviderNew(Unwrap(made.summarizer).provider),
                                             "summarize">>
                   /\ app_pc' = "summarize"
                   /\ UNCHANGED app_result
              ELSE /\ events' = Append(events, "get_summarizer")
                   /\ app_result' = Some(AppErr("Failed to get summarizer", Unwrap(made.error)))
                   /\ app_pc' = "returned"
                   /\ UNCHANGED <<provider, config, pc>>
    /\ UNCHANGED <<args, local_toml, global_toml, local_file, global_file, asum_config, staged_diff, staged_files,
                   stdout, clipboard>>
    /\ UNCHANGED <<url, retries, backoff, trace, responses, res, result, payload>>
    /\ UNCHANGED outsideApp

\* the end of the run with a failed copy reported as the run's error
AppFinishNeedsClipboard(cb) ==
    /\ app_pc = "summarize"
    /\ pc = "done"
    /\ IF Unwrap(result).ok
       THEN LET final_msg == Unwrap(result).msg
            IN  /\ stdout' = Append(stdout, Printed("final_msg", final_msg))
                /\ events' = events \o (IF cb = "unavailable" THEN <<"Clipboard::new">>
                                         ELSE <<"Clipboard::new", "set_text">>)
                /\ clipboard' = [state |-> cb,
                                 text |-> IF cb = "copied" THEN final_msg ELSE <<>>]
                /\ app_result' = Some(IF cb = "copied" THEN AppOk
                                         ELSE AppErr("", Err("Could not copy to clipboard", "anyhow", 0, "")))
       ELSE /\ app_result' = Some(AppErr("", Unwrap(result)))
            /\ UNCHANGED <<stdout, events, clipboard>>
    /\ app_pc' = "returned"
    /\ UNCHANGED <<args, local_toml, global_toml, local_file, global_file, asum_config, staged_diff, staged_files,
                   diff_text>>
    /\ UNCHANGED callVars
    /\ UNCHANGED outsideApp

\* the match on what summarize returned: print and copy, or return the error
AppFinish(cb) ==
    /\ app_pc = "summarize"
    /\ pc = "done"
    /\ IF Unwrap(result).ok
       THEN LET final_msg == Unwrap(result).msg
            IN  /\ stdout' = Append(stdout, Printed("final_msg", final_msg))
                /\ events' = events \o (IF cb = "unavailable" THEN <<"Clipboard::new">>
                                         ELSE <<"Clipboard::new", "set_text">>)
                /\ clipboard' = [state |-> cb,
                                 text |-> IF cb = "copied" THEN final_msg ELSE <<>>]
                /\ app_result' = Some(AppOk)
       ELSE /\ app_result' = Some(AppErr("", Unwrap(result)))
            /\ UNCHANGED <<stdout, events, clipboard>>
    /\ app_pc' = "returned"
    /\ UNCHANGED <<args, local_toml, global_toml, local_file, global_file, asum_config, staged_diff, staged_files,
                   diff_text>>
    /\ UNCHANGED callVars
    /\ UNCHANGED outsideApp

NextApp ==
    \/ \E f \in FileStates : AppCommand(f)
    \/ /\ app_pc = "load"
       /\ \E l \in FileStates, g \in GlobalStates, tl \in TomlConfigs, tg \in GlobalTomlConfigs :
              AppLoad(l, g, tl, tg)
    \/ \E out \in GitDiffs : AppGitDiff(out)
    \/ \E out \in StagedLists : AppStagedFiles(out)
    \/ AppSummarizer
    \/ Next
    \/ \E cb \in ClipboardOutcomes : AppFinish(cb)

SpecApp == InitApp /\ [][NextApp]_vars

----------------------------------------------------------------------------
(* What a cleaned text is, stated without the pipeline *)

\* s without its leading and trailing whitespace
Stripped(s) ==
    LET solid == {i \in 1..Len(s) : ~IsWhitespace(s[i])}
    IN  IF solid = {} THEN <<>>
        ELSE SubSeq(s, CHOOSE i \in solid : \A j \in solid : i <= j,
                       CHOOSE i \in solid : \A j \in solid : j <= i)

\* the maximal newline-free stretches of s, in order
Stretches(s) ==
    LET nl     == {i \in 1..Len(s) : s[i] = "\n"}
        n      == Cardinality(nl)
        cut(k) == IF k = 0 THEN 0
                  ELSE IF k = n + 1 THEN Len(s) + 1
                  ELSE CHOOSE i \in nl : Cardinality({j \in nl : j < i}) = k - 1
    IN  [k \in 1..(n + 1) |-> SubSeq(s, cut(k - 1) + 1, cut(k) - 1)]

\* l, lowercased, contains "diff to analyze" or "input diff"
EchoesInstructions(l) ==
    \E marker \in {DiffToAnalyze, InputDiff} :
        \E i \in 0..(Len(l) - Len(marker)) :
            \A j \in 1..Len(marker) : LowerChar(l[i + j]) = marker[j]

\* the lines a cleaned text must consist of
KeptLines(text) ==
    LET ls == Stretches(Stripped(text))
        tr == [i \in 1..Len(ls) |-> Stripped(ls[i])]
    IN  SelectSeq(tr, LAMBDA l : l # <<>> /\ ~EchoesInstructions(l))

\* out is exactly the lines ls, joined by single newlines
IsJoinOf(out, ls) ==
    IF ls = <<>> THEN out = <<>> ELSE Stretches(out) = ls

----------------------------------------------------------------------------
(* Claims about response cleaning (SpecClean) *)

\* C10: for every raw model text each provider's cleaning step returns
\* exactly the lines of the whole-trimmed text that, trimmed, are non-empty
\* and whose lowercase form contains neither "diff to analyze" nor
\* "input diff", in their original order and joined by single newlines; and
\* the two providers return the same text.
C10_CleanedLines ==
    /\ IsSome(out_ollama) => IsJoinOf(Unwrap(out_ollama), KeptLines(raw))
    /\ IsSome(out_gemini) => IsJoinOf(Unwrap(out_gemini), KeptLines(raw))
    /\ IsSome(out_ollama) /\ IsSome(out_gemini) => out_ollama = out_gemini

\* a text with a kept line, a dropped marker line and another kept line, cleaned by both
C10_Witness ==
    /\ raw = <<"a", "\n", " ", "I", "n", "p", "u", "t", " ", "D", "i", "f", "f", ":", "\n", "b">>
    /\ out_ollama = Some(<<"a", "\n", "b">>)
    /\ out_gemini = Some(<<"a", "\n", "b">>)

\* "feat: add x\nfix: cleanup"
ScenarioTwoLines ==
    <<"f", "e", "a", "t", ":", " ", "a", "d", "d", " ", "x", "\n",
      "f", "i", "x", ":", " ", "c", "l", "e", "a", "n", "u", "p">>

\* "feat: add x\n...\nfix: cleanup"
ScenarioThreeLines ==
    <<"f", "e", "a", "t", ":", " ", "a", "d", "d", " ", "x", "\n", ".", ".", ".", "\n",
      "f", "i", "x", ":", " ", "c", "l", "e", "a", "n", "u", "p">>

\* C11 as claimed: the raw model output "feat: add x", "", "Input diff to
\* analyze:", "...", "fix: cleanup" (five lines) is cleaned to exactly
\* "feat: add x" and "fix: cleanup" joined by one newline.
C11_Original ==
    raw = ScenarioText =>
        /\ IsSome(out_ollama) => Unwrap(out_ollama) = ScenarioTwoLines
        /\ IsSome(out_gemini) => Unwrap(out_gemini) = ScenarioTwoLines

\* C11: the raw model output "feat: add x", "", "Input diff to analyze:",
\* "...", "fix: cleanup" (five lines) is cleaned by both providers to
\* exactly the three lines "feat: add x", "..." and "fix: cleanup" joined by
\* single newlines: the blank line and the marker line go, "..." stays.
C11_Scenario ==
    raw = ScenarioText =>
        /\ IsSome(out_ollama) => Unwrap(out_ollama) = ScenarioThreeLines
        /\ IsSome(out_gemini) => Unwrap(out_gemini) = ScenarioThreeLines

\* both providers have cleaned the scenario text
C11_Witness ==
    /\ raw = ScenarioText
    /\ passes = 1
    /\ out_ollama = Some(ScenarioThreeLines)
    /\ out_gemini = Some(ScenarioThreeLines)

\* C12: cleaning is idempotent: a text that is itself the outcome of
\* cleaning is returned unchanged by either provider's cleaning step.
C12_Idempotent ==
    passes = 2 =>
        /\ IsSome(out_ollama) => Unwrap(out_ollama) = raw
        /\ IsSome(out_gemini) => Unwrap(out_gemini) = raw

\* a two-line cleaned text went through both providers a second time
C12_Witness ==
    /\ passes = 2
    /\ raw = <<"a", "\n", "b">>
    /\ out_ollama = Some(raw)
    /\ out_gemini = Some(raw)

----------------------------------------------------------------------------
(* Claims about one summarize call (Spec) *)

Gemini == provider = "gemini"

Ollama == provider = "ollama"

LastResponse == responses[Len(responses)]

\* the first n requests were all answered 429
RateLimited(n) ==
    /\ Len(responses) >= n
    /\ \A i \in 1..n : responses[i] = Answered(429)

\* C1: within one GeminiProvider::summarize call a further request is sent
\* only when the previous request was answered 429 and fewer than 3 retries
\* had been made before it; at most 4 requests are ever sent.
C1_RetryOnlyOn429 ==
    [][Gemini =>
         /\ Requests' <= 4
         /\ (Requests' > Requests /\ Requests >= 1) =>
                /\ Requests' = Requests + 1
                /\ Len(responses) = Requests
                /\ LastResponse = Answered(429)
                /\ Requests - 1 < 3]_vars

\* the fourth request of a Gemini call is in flight or answered
C1_Witness == Gemini /\ Requests = 4 /\ RateLimited(3)

\* C2: in GeminiProvider::summarize the k-th sleep lasts 2^k seconds (2, 4,
\* 8), at every loop head backoff = 2 * 2^retries with 0 <= retries <= 3,
\* requests and sleeps alternate starting with a request, and no sleep
\* follows the last response.
C2_BackoffDoubles ==
    Gemini =>
        /\ Len(Sleeps) <= 3
        /\ \A k \in 1..Len(Sleeps) : Sleeps[k] = Pow2(k)
        /\ \A k \in 1..(Len(Sleeps) - 1) : Sleeps[k] < Sleeps[k + 1]
        /\ pc = "loop" => backoff = 2 * Pow2(retries) /\ 0 <= retries /\ retries <= 3
        /\ \A i \in 1..Len(trace) :
               trace[i].e = (IF i % 2 = 1 THEN "request" ELSE "sleep")
        /\ pc \in {"text", "json", "done"} /\ trace # <<>> =>
               trace[Len(trace)].e = "request"

\* a Gemini call that slept three times and has returned
C2_Witness == Gemini /\ Done /\ Sleeps = <<2, 4, 8>>

\* the text field a generateContent response is read for, when it is a string
GeminiTextOf(r) ==
    IF r.body.readable /\ IsSome(r.body.json)
    THEN LET first == At(Get(Unwrap(r.body.json), "candidates"), 0)
             part  == At(Get(Get(first, "content"), "parts"), 0)
         IN  IF Get(part, "text").t = "str" THEN Some(Get(part, "text").s) ELSE None
    ELSE None

\* C3: for every k in 0..3, when the endpoint answers 429 exactly k times
\* and then 200 with a body whose candidates[0].content.parts[0].text
\* cleans to a non-empty text, summarize returns Ok with that cleaned text
\* after exactly k+1 requests and sleeps of 2, 4, .. 2^k seconds.
C3_SucceedsAfterRateLimits ==
    \A k \in 0..3 :
        ( /\ Gemini /\ Done
          /\ RateLimited(k)
          /\ Len(responses) = k + 1
          /\ LastResponse = Answered(200)
          /\ IsSome(GeminiTextOf(res))
          /\ KeptLines(Unwrap(GeminiTextOf(res))) # <<>> )
        => /\ Unwrap(result).ok
           /\ IsJoinOf(Unwrap(result).msg, KeptLines(Unwrap(GeminiTextOf(res))))
           /\ Requests = k + 1
           /\ Sleeps = [i \in 1..k |-> Pow2(i)]

\* 429, 429, then 200 with a text that has an echoed instruction line in it
C3_Witness ==
    /\ Gemini /\ Done
    /\ responses = <<Answered(429), Answered(429), Answered(200)>>
    /\ GeminiTextOf(res) = Some(TxtEcho)
    /\ result = Some(Ok(<<"f", "i", "x", ":", " ", "b", "\n", "d", "o", "c", "s", ":", " ", "c">>))
    /\ Sleeps = <<2, 4>>

\* what the Gemini status error says about the body of response r
GeminiBodyReport(r) == IF r.body.readable THEN r.body.text ELSE "Unknown error"

\* C4 as claimed: after 429 on the initial request and on all 3 retries the
\* call has sent 4 requests and slept 2, 4, 8, sends nothing more, never
\* returns Ok, and its error carries status 429 and the body text of the
\* last response.
C4_Original ==
    (Gemini /\ RateLimited(4)) =>
        /\ Requests = 4
        /\ Sleeps = <<2, 4, 8>>
        /\ pc \in {"text", "done"}
        /\ Done => /\ ~Unwrap(result).ok
                   /\ Unwrap(result).status = 429
                   /\ Unwrap(result).error_text = res.body.text

\* C4: after 429 on the initial request and on all 3 retries the call has
\* sent 4 requests and slept 2, 4, 8, sends nothing more, never returns Ok,
\* and its error carries status 429 and the body text of the last response,
\* or "Unknown error" in place of a body that could not be read.
C4_RateLimitExhausted ==
    (Gemini /\ RateLimited(4)) =>
        /\ Requests = 4
        /\ Sleeps = <<2, 4, 8>>
        /\ pc \in {"text", "done"}
        /\ Done => /\ ~Unwrap(result).ok
                   /\ Unwrap(result).err = "Gemini API returned error"
                   /\ Unwrap(result).status = 429
                   /\ Unwrap(result).error_text = GeminiBodyReport(res)

\* four 429 answers, the last with a readable body, and the call has returned
C4_Witness ==
    /\ Gemini /\ Done /\ RateLimited(4)
    /\ res.body = Body(TRUE, "quota exceeded", None)
    /\ Unwrap(result).error_text = "quota exceeded"

\* the last request was answered with a status that is neither 2xx nor 429
OtherFailure ==
    /\ responses # <<>>
    /\ ~LastResponse.transport
    /\ ~(LastResponse.status \in 200..299)
    /\ LastResponse.status # 429

\* C5 as claimed: a non-2xx status other than 429 ends a Gemini call at
\* once, first response or after 429 retries: no sleep, no further request,
\* and an error with the status code and the response body.
C5_Original ==
    (Gemini /\ OtherFailure) =>
        /\ pc \in {"text", "done"}
        /\ Requests = Len(responses)
        /\ Len(Sleeps) = Len(responses) - 1
        /\ RateLimited(Len(responses) - 1)
        /\ Done => /\ ~Unwrap(result).ok
                   /\ Unwrap(result).status = LastResponse.status
                   /\ Unwrap(result).error_text = res.body.text

\* C5: a non-2xx status other than 429 ends a Gemini call at once, first
\* response or after 429 retries: no sleep, no further request, and an error
\* with the status code and the response body, or "Unknown error" in place
\* of a body that could not be read.
C5_OtherStatusFailsAtOnce ==
    (Gemini /\ OtherFailure) =>
        /\ pc \in {"text", "done"}
        /\ Requests = Len(responses)
        /\ Len(Sleeps) = Len(responses) - 1
        /\ RateLimited(Len(responses) - 1)
        /\ Done => /\ ~Unwrap(result).ok
                   /\ Unwrap(result).err = "Gemini API returned error"
                   /\ Unwrap(result).status = LastResponse.status
                   /\ Unwrap(result).error_text = GeminiBodyReport(res)

\* 429, 429, then 500 with a readable body, and the call has returned
C5_Witness ==
    /\ Gemini /\ Done
    /\ responses = <<Answered(429), Answered(429), Answered(500)>>
    /\ Unwrap(result).status = 500
    /\ Unwrap(result).error_text = "quota exceeded"
    /\ Sleeps = <<2, 4>>

\* C6: OllamaProvider::summarize sends exactly one request per call and
\* never sleeps; any non-2xx status, 429 and 500 included, is at once a
\* terminal error carrying the status code.
C6_OllamaSingleRequest ==
    Ollama =>
        /\ Requests <= 1
        /\ Sleeps = <<>>
        /\ Len(responses) <= 1
        /\ pc # "start" => Requests = 1
        /\ (responses # <<>> /\ ~LastResponse.transport
              /\ ~(LastResponse.status \in 200..299)) =>
                /\ Done
                /\ ~Unwrap(result).ok
                /\ Unwrap(result).err = "Ollama API returned error"
                /\ Unwrap(result).status = LastResponse.status

\* an Ollama call answered 429 has returned the status error
C6_Witness ==
    /\ Ollama /\ Done
    /\ responses = <<Answered(429)>>
    /\ Unwrap(result).status = 429
    /\ Requests = 1

\* C7: with no api_key configured, GeminiProvider::summarize returns the
\* error "Gemini API key is missing" and sends no HTTP request at any point
\* of the call.
C7_CredentialGate ==
    (Gemini /\ ~IsSome(config.api_key)) =>
        /\ trace = <<>>
        /\ responses = <<>>
        /\ pc \in {"start", "done"}
        /\ Done => result = Some(Err("Gemini API key is missing", "context", 0, ""))

\* a Gemini call without a key has returned
C7_Witness ==
    /\ Gemini /\ config.api_key = None /\ Done
    /\ Unwrap(result).err = "Gemini API key is missing"

\* C8: a transport failure of a request is never retried by either
\* provider: it is the last thing that happens to the call, which returns
\* the transport error without a further request or sleep, also when it
\* follows 429 responses; a body that fails to arrive ends the call too.
C8_TransportNotRetried ==
    /\ \A i \in 1..Len(responses) :
           responses[i].transport =>
               /\ i = Len(responses)
               /\ Done
               /\ ~Unwrap(result).ok
               /\ Unwrap(result).err = "reqwest::Error"
               /\ Requests = i
               /\ Len(Sleeps) = i - 1
    /\ (Done /\ responses # <<>> /\ ~LastResponse.transport
          /\ LastResponse.status \in 200..299 /\ ~res.body.readable) =>
               /\ ~Unwrap(result).ok
               /\ Unwrap(result).err = "reqwest::Error"
               /\ Requests = Len(responses)

\* a Gemini call whose third request, after two 429 answers, failed in transport
C8_Witness ==
    /\ Gemini /\ Done
    /\ responses = <<Answered(429), Answered(429), TransportFailure>>
    /\ Unwrap(result).err = "reqwest::Error"
    /\ Requests = 3

ContentOf(j) == Get(Get(j, "message"), "content")

ResponseOf(j) == Get(j, "response")

TextOr(v) == IF v.t = "str" THEN v.s ELSE <<>>

\* summarize has returned what cleaning the raw text yields
ReturnedCleaned(text) ==
    IF KeptLines(text) = <<>>
    THEN result = Some(Err("AI generated an empty or invalid message.", "bail", 0, ""))
    ELSE Unwrap(result).ok /\ IsJoinOf(Unwrap(result).msg, KeptLines(text))

\* an Ollama call has returned after a 2xx response with a JSON body
OllamaParsed ==
    /\ Ollama /\ Done
    /\ responses # <<>> /\ ~LastResponse.transport
    /\ LastResponse.status \in 200..299
    /\ res.body.readable /\ IsSome(res.body.json)

EffectiveUrl == IF config.api_url = None THEN OllamaDefaultUrl ELSE config.api_url[1]

Parsed ==
    /\ Done
    /\ responses # <<>> /\ ~LastResponse.transport
    /\ LastResponse.status \in 200..299
    /\ res.body.readable /\ IsSome(res.body.json)

\* the raw model text of the parsed response, empty when the field is missing
RawModelText ==
    LET j == Unwrap(res.body.json)
    IN  IF Gemini THEN UnwrapOr(GeminiTextOf(res), <<>>)
        ELSE IF ContentOf(j).t = "str" THEN ContentOf(j).s
        ELSE TextOr(ResponseOf(j))

\* every line of text is blank or echoes the instructions
OnlyBlankOrBoilerplate(text) ==
    \A i \in 1..Len(Stretches(text)) :
        \/ Stripped(Stretches(text)[i]) = <<>>
        \/ EchoesInstructions(Stretches(text)[i])

\* C13: neither provider returns Ok with an empty string: a raw model text
\* of only blank lines and boilerplate-marker lines (or none at all) gives
\* the empty-generation error, and every Ok text is non-empty, has no blank
\* line and no line with leading or trailing whitespace.
C13_NeverEmptyOk ==
    /\ (Done /\ IsSome(result) /\ Unwrap(result).ok) =>
           LET ls == Stretches(Unwrap(result).msg)
           IN  /\ Unwrap(result).msg # <<>>
               /\ \A i \in 1..Len(ls) : ls[i] # <<>> /\ Stripped(ls[i]) = ls[i]
    /\ (Parsed /\ OnlyBlankOrBoilerplate(RawModelText)) =>
           result = Some(Err("AI generated an empty or invalid message.", "bail", 0, ""))

\* an Ollama call whose response text was blank and boilerplate lines only
C13_Witness ==
    /\ Ollama /\ Parsed
    /\ RawModelText = TxtBoiler
    /\ Unwrap(result).err = "AI generated an empty or invalid message."

\* the failure condition of a finished call, read off what the call was given
\* and what the endpoint did, "none" when nothing went wrong
FailureCondition ==
    IF Gemini /\ ~IsSome(config.api_key) THEN "missing credential"
    ELSE IF LastResponse.transport THEN "transport failure"
    ELSE IF ~IsSuccess(LastResponse.status) THEN "status"
    ELSE IF ~(res.body.readable /\ IsSome(res.body.json)) THEN "unparseable body"
    ELSE IF OnlyBlankOrBoilerplate(RawModelText) THEN "empty after sanitization"
    ELSE "none"

\* the error kind a caller reads off a returned value
ErrorKind(r) ==
    IF r.ok THEN "none"
    ELSE IF r.err = "Gemini API key is missing" THEN "missing credential"
    ELSE IF r.err = "reqwest::Error" /\ r.kind = "request" THEN "transport failure"
    ELSE IF r.err \in {"Gemini API returned error", "Ollama API returned error"} THEN "status"
    ELSE IF r.err = "reqwest::Error" /\ r.kind = "json" THEN "unparseable body"
    ELSE IF r.err = "AI generated an empty or invalid message." THEN "empty after sanitization"
    ELSE "other"

\* C16: the failure conditions of summarize (missing credential, transport
\* failure, non-success status once retries are used up, unparseable body,
\* response empty after sanitization) each give an error of their own: the
\* condition can be read back from the returned error, so no two
\* conditions share an outcome, and a status error carries its status.
C16_DistinctErrorKinds ==
    Done =>
        /\ IsSome(result)
        /\ ErrorKind(Unwrap(result)) = FailureCondition
        /\ FailureCondition = "status" => Unwrap(result).status = LastResponse.status

\* an Ollama call whose 2xx body was no JSON document has returned the decode error
C16_Witness ==
    /\ Done /\ Ollama
    /\ FailureCondition = "unparseable body"
    /\ res.body.readable
    /\ Unwrap(result).err = "reqwest::Error" /\ Unwrap(result).kind = "json"

\* C17: when every request is eventually answered with a response or a
\* transport error, every summarize call of either provider ends, with one
\* returned value (Ok or an error) that stays, after at most 4 requests:
\* no sequence of responses, 429s included, keeps the Gemini loop going.
C17_Terminates ==
    <>[](Done /\ IsSome(result) /\ Requests <= max_retries + 1)

\* a Gemini call answered 429 four times over has ended
C17_Witness ==
    /\ Gemini /\ Done
    /\ RateLimited(max_retries + 1)
    /\ IsSome(result) /\ ~Unwrap(result).ok

----------------------------------------------------------------------------
(* Claims about run_app and get_summarizer, checked on SpecApp *)

\* how many times run_app has made the call named
Count(name) == Len(SelectSeq(events, LAMBDA ev : ev = name))

Returned == app_pc = "returned"

\* no provider exists and nothing was sent
NoProviderNoNetwork ==
    /\ provider = "none"
    /\ Count("OllamaProvider::new") = 0
    /\ Count("GeminiProvider::new") = 0
    /\ Count("summarize") = 0
    /\ trace = <<>>
    /\ responses = <<>>

\* the selector get_summarizer was called with
Selector == Unwrap(asum_config).active_provider

NothingLoaded ==
    /\ asum_config = None
    /\ global_file = "unprobed"
    /\ staged_diff = None /\ staged_files = None
    /\ Count("AsumConfig::load") = 0
    /\ Count("get_git_diff") = 0 /\ Count("get_staged_files") = 0
    /\ Count("get_summarizer") = 0
    /\ NoProviderNoNetwork

\* C18: with a first argument, run_app returns from the dispatch: Ok for
\* "help", "--help" and "-h"; for "verify" Ok exactly when ./asum.toml exists
\* and parses, the error "asum.toml not found" when it is missing and an
\* "asum.toml syntax error" when it does not parse; the error "Unknown
\* command" for anything else; and on all of these paths no configuration
\* is loaded, no git command runs and no summarizer is created.
C18_CommandDispatch ==
    Len(args) > 1 =>
        /\ app_pc \in {"args", "returned"}
        /\ NothingLoaded
        /\ Returned =>
               IF args[2] \in {"help", "--help", "-h"}
               THEN app_result = Some(AppOk)
               ELSE IF args[2] = "verify"
               THEN /\ Unwrap(app_result).ok <=> local_file = "valid"
                    /\ local_file = "missing" =>
                           app_result = Some(AppErr("", Err("asum.toml not found", "anyhow", 0, "")))
                    /\ local_file \in {"unreadable", "invalid"} =>
                           /\ ~Unwrap(app_result).ok
                           /\ Unwrap(Unwrap(app_result).error).err = "asum.toml syntax error"
               ELSE app_result = Some(AppErr("", Err("Unknown command", "anyhow", 0, "")))

\* verify has returned the syntax error for a file that does not parse
C18_Witness ==
    /\ args = <<"asum", "verify">>
    /\ local_file = "invalid"
    /\ Returned
    /\ Unwrap(Unwrap(app_result).error).err = "asum.toml syntax error"

\* C19: without a subcommand, when the filtered staged diff and the staged
\* file list are both empty, run_app returns Ok and has constructed no
\* provider, called summarize not once and sent nothing.
C19_NothingStaged ==
    (/\ Len(args) <= 1
     /\ staged_diff = Some(GitOutput(<<>>))
     /\ staged_files = Some(GitOutput(<<>>))) =>
        /\ Returned
        /\ app_result = Some(AppOk)
        /\ Count("get_summarizer") = 0
        /\ NoProviderNoNetwork

\* a run configured for Gemini with nothing staged has returned Ok
C19_Witness ==
    /\ args = <<"asum">>
    /\ IsSome(asum_config) /\ Selector = "gemini"
    /\ staged_diff = Some(GitOutput(<<>>))
    /\ staged_files = Some(GitOutput(<<>>))
    /\ app_result = Some(AppOk)

\* C20: once summarize has been called, run_app returns what summarize
\* returned: its error as it is, after the one call, or Ok when summarize
\* returned Ok, whatever became of the clipboard; and not before the call
\* has returned.
C20_ResultIsSummarizeOutcome ==
    Count("summarize") >= 1 =>
        /\ Count("summarize") = 1
        /\ ~Returned => app_result = None
        /\ Returned =>
               /\ Done /\ IsSome(result)
               /\ Unwrap(result).ok => app_result = Some(AppOk)
               /\ ~Unwrap(result).ok =>
                      /\ app_result = Some(AppErr("", Unwrap(result)))
                      /\ clipboard.state = "untouched"

\* summarize returned a message, no clipboard was to be had, run_app is Ok
C20_Witness ==
    /\ Returned
    /\ Count("summarize") = 1
    /\ Unwrap(result).ok
    /\ clipboard.state = "unavailable"
    /\ app_result = Some(AppOk)

----------------------------------------------------------------------------
(* Claims about the request a provider sends *)

\* v is an object with a member k
HasKey(v, k) == v.t = "obj" /\ \E i \in 1..Len(v.keys) : v.keys[i] = k

\* the user prompt of the provider's configuration rendered for the diff
\* run_app passed to summarize
RenderedPrompt == generate_prompt(config.user_prompt, diff_text)

\* the URL an Ollama provider posts to: the configured one, else the default
OllamaEndpoint == IF IsSome(config.api_url) THEN Unwrap(config.api_url) ELSE OllamaDefaultUrl

\* text ends with "/api/generate"
GenerateStyle(text) ==
    /\ Len(text) >= Len(ApiGenerate)
    /\ \A i \in 1..Len(ApiGenerate) : text[Len(text) - Len(ApiGenerate) + i] = ApiGenerate[i]

\* C21: the body of an Ollama request follows the effective URL (api_url,
\* else http://localhost:11434/api/chat): ending in "/api/generate" it has
\* one "prompt", the system prompt, a blank line and the rendered user
\* prompt, and no "messages"; otherwise it has "messages" with the two
\* entries system (system_prompt) then user (rendered prompt) and no
\* "prompt"; both carry stream = false and options with temperature,
\* num_predict and top_p.
C21_OllamaRequestShape ==
    (Ollama /\ IsSome(payload)) =>
        LET body == Unwrap(payload)
        IN  /\ url = OllamaEndpoint
            /\ IF GenerateStyle(OllamaEndpoint)
               THEN /\ Get(body, "prompt")
                         = JStr(config.system_prompt \o <<"\n", "\n">> \o RenderedPrompt)
                    /\ ~HasKey(body, "messages")
               ELSE /\ Get(body, "messages").t = "arr"
                    /\ Len(Get(body, "messages").vals) = 2
                    /\ At(Get(body, "messages"), 0)
                         = JObj(<<"role", "content">>,
                                <<JStr(<<"s", "y", "s", "t", "e", "m">>), JStr(config.system_prompt)>>)
                    /\ At(Get(body, "messages"), 1)
                         = JObj(<<"role", "content">>, <<JStr(<<"u", "s", "e", "r">>), JStr(RenderedPrompt)>>)
                    /\ ~HasKey(body, "prompt")
            /\ Get(body, "model") = JStr(config.model)
            /\ Get(body, "stream") = JBool(FALSE)
            /\ Get(body, "options").keys = <<"temperature", "num_predict", "top_p">>
            /\ Get(Get(body, "options"), "temperature") = JNumber(config.temperature)
            /\ Get(Get(body, "options"), "num_predict") = JNumber(config.num_predict)
            /\ Get(Get(body, "options"), "top_p") = JNumber(config.top_p)

\* a request to a URL with "/api/generate/" at its end, which is not the
\* generate suffix, went out in the chat shape with the diff in it
C21_Witness ==
    /\ Ollama /\ IsSome(payload)
    /\ url = UrlGenerateSlash
    /\ diff_text = <<"+", "a">>
    /\ config.user_prompt = default_user_prompt
    /\ HasKey(Unwrap(payload), "messages")

----------------------------------------------------------------------------
(* Claims about a 2xx response that does not carry the text *)

\* the call has returned after a 2xx response
Succeeded ==
    /\ Done
    /\ responses # <<>> /\ ~LastResponse.transport
    /\ LastResponse.status \in 200..299

\* the body of the response is a JSON document
JsonBody == res.body.readable /\ IsSome(res.body.json)

\* the JSON body has no string where the provider reads the text
TextFieldMissing ==
    IF Gemini THEN GeminiTextOf(res) = None
    ELSE /\ ContentOf(Unwrap(res.body.json)).t # "str"
         /\ ResponseOf(Unwrap(res.body.json)).t # "str"

\* C23: after a 2xx response whose body is no JSON document summarize
\* returns the decode error and not a sanitization outcome; after one
\* whose JSON has no string in the text field (Ollama: neither
\* message.content nor response; Gemini: candidates[0].content.parts[0].text)
\* it returns the empty-generation error, never Ok.
C23_UnusableBody ==
    Succeeded =>
        /\ ~JsonBody => result = Some(Err("reqwest::Error", "json", 0, ""))
        /\ (JsonBody /\ TextFieldMissing) =>
               result = Some(Err("AI generated an empty or invalid message.", "bail", 0, ""))

\* a Gemini 200 with an empty candidates array has ended in the
\* empty-generation error
C23_Witness ==
    /\ Gemini /\ Succeeded /\ JsonBody
    /\ Get(Unwrap(res.body.json), "candidates") = JArr(<<>>)
    /\ Unwrap(result).err = "AI generated an empty or invalid message."

----------------------------------------------------------------------------
(* Claims about what a run of run_app creates and passes on *)

\* provider instances constructed so far in the run
Constructed == Count("OllamaProvider::new") + Count("GeminiProvider::new")

----------------------------------------------------------------------------
(* Claims about the endpoint a provider posts to *)

\* text begins with prefix
Begins(text, prefix) ==
    /\ Len(text) >= Len(prefix)
    /\ \A i \in 1..Len(prefix) : text[i] = prefix[i]

\* the provider has sent a request
Posted == Requests >= 1

\* C25 as claimed: either provider posts to api_url when it is present, and
\* to its own default endpoint when it is absent.
C25_Original ==
    Posted =>
        IF IsSome(config.api_url)
        THEN Begins(url, Unwrap(config.api_url))
        ELSE Begins(url, IF Ollama THEN OllamaDefaultUrl ELSE GeminiBaseUrl)

\* C25: the Ollama provider posts to api_url when it is present and to
\* http://localhost:11434/api/chat when it is absent; the Gemini provider
\* posts to https://generativelanguage.googleapis.com whether api_url is
\* present or not (the path names the model, the query carries the key).
C25_Endpoint ==
    Posted =>
        /\ Ollama =>
              url = (IF IsSome(config.api_url) THEN Unwrap(config.api_url)
                     ELSE OllamaDefaultUrl)
        /\ Gemini =>
              /\ Begins(url, GeminiBaseUrl \o <<"/", "v", "1", "b", "e", "t", "a", "/",
                                                "m", "o", "d", "e", "l", "s", "/">>
                                          \o config.model)
              /\ IsSome(config.api_url) => ~Begins(url, Unwrap(config.api_url))

\* a Gemini provider configured with an api_url has posted to the Google
\* endpoint
C25_Witness ==
    /\ Gemini /\ Posted
    /\ IsSome(config.api_url)
    /\ Begins(url, GeminiBaseUrl)

\* the text git gave the run for the summary: the filtered diff, or the
\* list of staged files when the diff was empty
SourceText ==
    IF IsSome(staged_files) THEN Unwrap(staged_files).text ELSE Unwrap(staged_diff).text

\* run_app has called summarize
Summarizing == Count("summarize") >= 1

\* the limit of the loaded configuration
Limit == Unwrap(asum_config).max_diff_length

\* C26: the text run_app passes to summarize has at most max_diff_length
\* characters; a text whose byte length is within the limit is passed as
\* git gave it, and a longer one is cut to its first max_diff_length
\* characters (the whole text when it has no more characters than that).
C26_TruncatedDiff ==
    Summarizing =>
        /\ Len(diff_text) <= Limit
        /\ ByteLen(SourceText) <= Limit => diff_text = SourceText
        /\ ByteLen(SourceText) > Limit =>
              /\ Len(diff_text) = (IF Len(SourceText) < Limit THEN Len(SourceText) ELSE Limit)
              /\ \A i \in 1..Len(diff_text) : diff_text[i] = SourceText[i]

\* the diff "+éb" of four bytes under a limit of two was passed on as its
\* first two characters, which are three bytes
C26_Witness ==
    /\ Summarizing
    /\ SourceText = <<"+", "é", "b">>
    /\ Limit = 2
    /\ diff_text = <<"+", "é">>
    /\ ByteLen(diff_text) > Limit

\* position of the first event of that name in the run, 0 when there is none
FirstAt(name) ==
    IF Count(name) = 0 THEN 0
    ELSE CHOOSE i \in 1..Len(events) :
             events[i] = name /\ \A j \in 1..(i - 1) : events[j] # name

\* text cut to the limit of the loaded configuration
Cut(text) == SubSeq(text, 1, IF Len(text) < Limit THEN Len(text) ELSE Limit)

----------------------------------------------------------------------------
(* Claims about AsumConfig::load *)

\* AsumConfig::load has been called in this run
LoadCalled == Count("AsumConfig::load") = 1

\* the call failed, and run_app returned its error
LoadFailedWith(err) ==
    /\ asum_config = None
    /\ Returned
    /\ ~Unwrap(app_result).ok
    /\ Unwrap(app_result).context = "Failed to load configuration"
    /\ Unwrap(Unwrap(app_result).error).err = err

\* a file that exists decides the result: its configuration when it
\* parses, the error of reading or parsing it when it does not
Decides(state, content, failure) ==
    IF state = "valid"
    THEN asum_config = Some(load_from_toml(Unwrap(content)))
    ELSE /\ LoadFailedWith(failure)
         /\ Unwrap(Unwrap(app_result).error).error_text
              = (IF state = "unreadable" THEN "io::Error" ELSE "toml::de::Error")

\* ./asum.toml decides alone when it exists, else ~/.asum/asum.toml when it
\* exists, and a configuration comes from one of the two files only
FixedOrder ==
    /\ local_file # "missing" =>
          /\ global_file = "unprobed" /\ global_toml = None
          /\ Decides(local_file, local_toml, "Failed to load local config")
    /\ (local_file = "missing" /\ global_file \in {"unreadable", "invalid", "valid"}) =>
          Decides(global_file, global_toml, "Failed to load global config")
    /\ IsSome(asum_config) =>
          \/ local_file = "valid"
          \/ local_file = "missing" /\ global_file = "valid"

NotFound == "Configuration file 'asum.toml' not found locally or in ~/.asum/asum.toml"

\* C28 as claimed: the fixed order, and the 'not found' error whenever
\* neither file exists.
C28_Original ==
    LoadCalled =>
        /\ FixedOrder
        /\ (local_file = "missing" /\ global_file \in {"missing", "no home"}) =>
              LoadFailedWith(NotFound)

\* C28: AsumConfig::load resolves in a fixed order: ./asum.toml alone
\* decides when it exists (the global file is not looked at); otherwise
\* ~/.asum/asum.toml decides when it exists; when neither exists the result
\* is the 'not found' error, or the error "Could not find home directory"
\* when there is no home directory to look in; no configuration is made up.
C28_LoadOrder ==
    LoadCalled =>
        /\ FixedOrder
        /\ (local_file = "missing" /\ global_file = "missing") => LoadFailedWith(NotFound)
        /\ (local_file = "missing" /\ global_file = "no home") =>
              LoadFailedWith("Could not find home directory")

\* ./asum.toml exists and does not parse: its error is the result although
\* the run has gone no further and the global file was never looked at
C28_Witness ==
    /\ LoadCalled
    /\ local_file = "invalid"
    /\ global_file = "unprobed"
    /\ LoadFailedWith("Failed to load local config")

----------------------------------------------------------------------------
(* Claims about the empty Gemini key *)

\* the configured key is present and is the empty string
EmptyKey == config.api_key = Some(<<>>)

KeyParameter == <<"?", "k", "e", "y", "=">>

\* the URL ends with "?key=": the query carries the key with no value
KeyValueEmpty(text) ==
    /\ Len(text) >= Len(KeyParameter)
    /\ SubSeq(text, Len(text) - Len(KeyParameter) + 1, Len(text)) = KeyParameter

\* C29: the Gemini credential gate tests presence only: with an api_key
\* that is present and empty, summarize does not report a missing
\* credential, and it goes on to send a request to a URL that ends in
\* "key=" with nothing after it.
C29_EmptyKeyPasses ==
    (Gemini /\ EmptyKey) =>
        /\ IsSome(result) => Unwrap(result).err # "Gemini API key is missing"
        /\ pc # "start" =>
              /\ KeyValueEmpty(url)
              /\ Begins(url, GeminiBaseUrl)
        /\ pc \notin {"start", "loop"} => Posted
        /\ Done => Posted

\* a Gemini provider with the empty key has had a request answered and
\* returned, the request having gone to a URL ending in "key="
C29_Witness ==
    /\ Gemini /\ EmptyKey
    /\ Done /\ Posted
    /\ Len(responses) >= 1
    /\ KeyValueEmpty(url)

----------------------------------------------------------------------------
(* Key logging on its own: the info! lines of get_summarizer *)

\* longest key taken from KeyBase
MaxKeyLen == 12

\* ai_config.api_key: absent, a key of one-byte characters of any length up
\* to MaxKeyLen, a key that is itself of a masked form, or a key with the
\* two-byte "é"
KeysGiven ==
    LET KeyBase == <<"a", "b", "c", "d", "e", "f", "g", "h", "i", "j", "k", "l", "m", "n">>
    IN  {None, Some(<<>>)}
        \cup {Some(SubSeq(KeyBase, i, j)) : i \in 1..MaxKeyLen, j \in 1..MaxKeyLen}
        \cup { Some(<<"*", "*", "*", "*">>),
               Some(<<"a", "b", "c", "d", ".", ".", ".", "i", "j", "k", "l">>),
               Some(<<"é", "é", "é", "é">>),
               Some(<<"é", "é", "é", "é", "é">>),
               Some(<<"é", "é", "é", "é", "é", "é">>),
               Some(<<"a", "b", "c", "é", "e", "f", "g", "h", "i">>),
               Some(<<"a", "b", "c", "d", "e", "f", "é", "g", "h", "i">>),
               Some(<<"a", "b", "c", "d", "e", "f", "g", "h", "é">>) }

\* config.active_provider as get_summarizer is given it
LoggedProviders == {<<"o", "l", "l", "a", "m", "a">>, <<"g", "e", "m", "i", "n", "i">>}

\* a line of the log: an info! line with its argument, or the message of a panic
LogLine(level, line, text) == [level |-> level, line |-> line, text |-> text]

\* &key[..n]: None when byte index n is not a char boundary (the slice panics)
RECURSIVE BytePrefix(_, _)
BytePrefix(text, n) ==
    IF n = 0 THEN Some(<<>>)
    ELSE IF text = <<>> \/ Utf8Len(Head(text)) > n THEN None
    ELSE LET rest == BytePrefix(Tail(text), n - Utf8Len(Head(text)))
         IN  IF IsSome(rest) THEN Some(<<Head(text)>> \o Unwrap(rest)) ELSE None

\* &key[key.len() - n..]: None when the byte index is not a char boundary
RECURSIVE ByteSuffix(_, _)
ByteSuffix(text, n) ==
    IF n = 0 THEN Some(<<>>)
    ELSE IF text = <<>> \/ Utf8Len(text[Len(text)]) > n THEN None
    ELSE LET rest == ByteSuffix(SubSeq(text, 1, Len(text) - 1), n - Utf8Len(text[Len(text)]))
         IN  IF IsSome(rest) THEN Some(Append(Unwrap(rest), text[Len(text)])) ELSE None

\* let masked_key = if key.len() > 8 { format!("{}...{}", ..) } else { "****" };
\* None when one of the two slices panics
masked_key(key) ==
    IF ByteLen(key) > 8
    THEN IF IsSome(BytePrefix(key, 4)) /\ IsSome(ByteSuffix(key, 4))
         THEN Some(Unwrap(BytePrefix(key, 4)) \o <<".", ".", ".">>
                   \o Unwrap(ByteSuffix(key, 4)))
         ELSE None
    ELSE Some(<<"*", "*", "*", "*">>)

InitLog ==
    /\ key_given \in KeysGiven
    /\ log = <<>>
    /\ NoApp
    /\ provider = "none"
    /\ config = NoConfig
    /\ pc = "idle"
    /\ url = <<>>
    /\ retries = 0
    /\ backoff = 0
    /\ trace = <<>>
    /\ responses = <<>>
    /\ res = NoResponse
    /\ result = None
    /\ payload = None
    /\ raw = <<>>
    /\ out_ollama = None
    /\ out_gemini = None
    /\ passes = 1
    /\ template = <<>>
    /\ diff = <<>>
    /\ prompt = None

\* the lines get_summarizer logs for provider p and the model, then the line
\* of a key that as_ref().filter(|k| !k.is_empty()) lets through; a panic of
\* the masking ends the function there
LogKey(p) ==
    /\ log = <<>>
    /\ log' = <<LogLine("info", "Using provider: {}", p),
                LogLine("info", "Using model: {}", ModelName)>>
               \o (IF key_given = None \/ key_given = Some(<<>>) THEN <<>>
                   ELSE IF IsSome(masked_key(Unwrap(key_given)))
                   THEN <<LogLine("info", "Using API key: {}",
                                  Unwrap(masked_key(Unwrap(key_given))))>>
                   ELSE <<LogLine("panic", "byte index is not a char boundary", <<>>)>>)
    /\ UNCHANGED key_given
    /\ UNCHANGED <<callVars, cleanVars, promptVars, appVars>>

NextLog == \E p \in LoggedProviders : LogKey(p)

SpecLog == InitLog /\ [][NextLog]_vars

----------------------------------------------------------------------------
(* Claims about the key in the log *)

\* get_summarizer has written its lines
Logged == log # <<>>

\* the "Using API key" lines of the log
KeyLines == SelectSeq(log, LAMBDA l : l.line = "Using API key: {}")

\* C30: a key of more than 8 characters is logged as its first 4
\* characters, "..." and its last 4 characters, a key of 8 or fewer as
\* "****", so that the line never holds the full key; an absent or empty key
\* gets no line.
C30_KeyMasked ==
    Logged =>
        IF key_given = None \/ key_given = Some(<<>>)
        THEN KeyLines = <<>>
        ELSE LET key == Unwrap(key_given)
             IN  /\ Len(KeyLines) = 1
                 /\ KeyLines[1].text
                      = (IF Len(key) > 8
                         THEN SubSeq(key, 1, 4) \o <<".", ".", ".">>
                              \o SubSeq(key, Len(key) - 3, Len(key))
                         ELSE <<"*", "*", "*", "*">>)
                 /\ ~Contains(KeyLines[1].text, key)

====
